---- MODULE Spec2Model ----
(***************************************************************************)
(* Model of the agent-service registry program                             *)
(* (src/programs/registry/src/lib.rs and its state/pda/constants modules). *)
(*                                                                         *)
(* Every instruction handler is a pure operator from the account state     *)
(* before the call (a record W of all accounts) and the instruction's      *)
(* arguments and supplied accounts to a result [err, w]: the error code    *)
(* ("Ok" on success) and the account state at the point where the handler  *)
(* returned, mutated exactly as far as the code had mutated it.  The       *)
(* dispatcher (Persist) writes that state back only when the handler       *)
(* returned Ok(...): a handler returning Err aborts the transaction and    *)
(* none of its writes to accounts or balances survive.                     *)
(*                                                                         *)
(* A handler starts with the checks of its Accounts struct, which run      *)
(* before its body: the accounts it needs exist (AccountNotInitialized),   *)
(* an account it creates does not (AccountInUse), and an account           *)
(* constrained to an address has it (ConstraintAddress).                   *)
(*                                                                         *)
(* Rent (the minimum balance of created accounts) is not modelled: the     *)
(* balances are the amounts above rent.                                    *)
(***************************************************************************)
EXTENDS Integers, Sequences, FiniteSets, TLC

(***************************************************************************)
(* Bounds of the model.                                                    *)
(***************************************************************************)
MaxParam == 2
MaxThreshold == 4
InitFunds == 3

\* constants.rs:1, scaled down to the size of the modelled role-id space
MAX_AGENT_IDS_PER_SERVICE == 2
\* constants.rs:2, scaled down
MAX_AGENT_INSTANCES_PER_SERVICE == 3
\* the size cap of the multisig whitelist, scaled down
MAX_MULTISIGS == 2
\* u32::MAX is beyond TLC's integers; the largest TLC integer stands in for it
\* (the sums of the model stay far below either)
U32_MAX == 2147483647
\* width of the u8 slot counter
U8 == 256

(***************************************************************************)
(* Identities (Pubkeys).                                                   *)
(***************************************************************************)
ZeroKey == "zero"
Admin == "adm"
Manager == "mgr"
Drainer == "drn"
SvcOwner == "own"
Wallet == "wallet"
Operators == {"op1", "op2"}
Instances == {"x1", "x2"}
Roles == {1, 2}
\* service accounts: the PDA of a config hash (prefix); hash 0 is the zero hash
Hashes == {1, 2}
Accts == Hashes
Holders == {Admin, Manager, Drainer, SvcOwner, Wallet} \cup Operators

States == {"NonExistent", "PreRegistration", "ActiveRegistration",
           "FinishedRegistration", "Deployed", "TerminatedBonded"}

NoThreshold == -1
Thresholds == {NoThreshold} \cup 0..MaxThreshold

\* who calls and which service owner the call names: the right pair, a wrong
\* caller, a wrong owner
RightShape == [user |-> Manager, owner |-> SvcOwner]
CallShapes == {RightShape,
               [user |-> Admin, owner |-> SvcOwner],
               [user |-> Manager, owner |-> ZeroKey]}

VARIABLES
    registry,                      \* ServiceRegistry
    service,                       \* ServiceAccount per service PDA
    agent_ids_index,               \* ServiceAgentIdsIndex.agent_ids per service
    agent_param,                   \* AgentParamAccount per (service, agent id)
    slot_counter,                  \* ServiceAgentSlotCounterAccount.count
    agent_instances_index,         \* ServiceAgentInstancesIndex per service
    service_agent_instance,        \* existing ServiceAgentInstanceAccount PDAs
    operator_agent_instance,       \* existing OperatorAgentInstanceAccount PDAs
    operator_agent_instance_index, \* OperatorAgentInstanceIndex per (service, operator)
    operator_bond,                 \* OperatorBondAccount.bond per (service, operator)
    registry_multisig,             \* whether the RegistryMultisig account exists
    authorized_multisigs,          \* RegistryMultisig.authorized_multisigs
    multisig_accounts,             \* created MultisigAccount records
    lamports,                      \* balances
    last,                          \* the last instruction that returned Ok
    ledger,                        \* per service: what its instructions moved so far
    drained                        \* what the drain calls moved out of the wallet

vars == <<registry, service, agent_ids_index, agent_param, slot_counter,
          agent_instances_index, service_agent_instance, operator_agent_instance,
          operator_agent_instance_index, operator_bond, registry_multisig,
          authorized_multisigs, multisig_accounts, lamports, last, ledger, drained>>

\* All accounts as one value: what a handler reads and what it returns.
World ==
    [reg |-> registry, svc |-> service, ids |-> agent_ids_index,
     param |-> agent_param, slot |-> slot_counter, insts |-> agent_instances_index,
     sai |-> service_agent_instance, oai |-> operator_agent_instance,
     oidx |-> operator_agent_instance_index, bond |-> operator_bond,
     wlx |-> registry_multisig, wl |-> authorized_multisigs,
     msig |-> multisig_accounts, bal |-> lamports]

Fail(code, w) == [err |-> code, w |-> w]
Done(w) == [err |-> "Ok", w |-> w]

\* a minimum that always yields its second argument
Second(a, b) == b

Min(a, b) == IF a < b THEN a ELSE b
Max(a, b) == IF a < b THEN b ELSE a
SaturatingAdd(a, b) == IF a > U32_MAX - b THEN U32_MAX ELSE a + b
SaturatingSub(a, b) == IF a < b THEN 0 ELSE a - b
DivCeil(a, b) == (a + b - 1) \div b

\* an account that was never created or was closed
EmptyService ==
    [service_id |-> 0, service_owner |-> ZeroKey, security_deposit |-> 0,
     multisig |-> <<>>, config_hash |-> 0, threshold |-> 0,
     max_num_agent_instances |-> 0, num_agent_instances |-> 0,
     state |-> "NonExistent"]
EmptyParam == [slots |-> 0, bond |-> 0, init |-> FALSE]
EmptyBond == [bond |-> 0, init |-> FALSE]

(***************************************************************************)
(* initialize                                                              *)
(***************************************************************************)
Init ==
    /\ registry = [owner |-> Admin, manager |-> Manager, drainer |-> Drainer,
                   slashed_funds |-> 0, total_supply |-> 0, locked |-> FALSE]
    /\ service = [a \in Accts |-> EmptyService]
    /\ agent_ids_index = [a \in Accts |-> <<>>]
    /\ agent_param = [a \in Accts |-> [r \in Roles |-> EmptyParam]]
    /\ slot_counter = [a \in Accts |-> [r \in Roles |-> 0]]
    /\ agent_instances_index = [a \in Accts |-> <<>>]
    /\ service_agent_instance = {}
    /\ operator_agent_instance = {}
    /\ operator_agent_instance_index = [a \in Accts |-> [o \in Operators |-> <<>>]]
    /\ operator_bond = [a \in Accts |-> [o \in Operators |-> EmptyBond]]
    /\ registry_multisig = FALSE
    /\ authorized_multisigs = <<>>
    /\ multisig_accounts = {}
    /\ lamports = [h \in Holders |-> IF h = Manager THEN InitFunds ELSE 0]
    /\ last = [op |-> "initialize", acct |-> 0]
    /\ ledger = [a \in Accts |-> [bonded |-> 0, refunded |-> 0, slashed |-> 0,
                                  deposits |-> 0, paid |-> 0]]
    /\ drained = 0

(***************************************************************************)
(* The dispatcher: account state is written back only after Ok.            *)
(***************************************************************************)
\* a dispatcher that keeps what a failed handler wrote
Persist_also_after_error(pre, res) == res.w

Persist(pre, res) == IF res.err = "Ok" THEN res.w ELSE pre

\* The history of a service: the lamports its register_agents calls moved into
\* the wallet, those its unbond calls moved out of it, what its slash calls
\* added to slashed_funds, the number of its activate_registration calls less
\* the number of its terminate calls, and what its latest activate_registration
\* moved into the wallet (0 again once a terminate followed it); pre and post
\* are the accounts before and after a call that returned Ok.
Book(l, op, acct, pre, post) ==
    IF op = "register_agents"
    THEN [l EXCEPT ![acct].bonded = @ + (post.bal[Wallet] - pre.bal[Wallet])]
    ELSE IF op = "unbond"
    THEN [l EXCEPT ![acct].refunded = @ + (pre.bal[Wallet] - post.bal[Wallet])]
    ELSE IF op = "slash"
    THEN [l EXCEPT ![acct].slashed = @ + (post.reg.slashed_funds - pre.reg.slashed_funds)]
    ELSE IF op = "activate_registration"
    THEN [l EXCEPT ![acct].deposits = @ + 1,
                   ![acct].paid = post.bal[Wallet] - pre.bal[Wallet]]
    ELSE IF op = "terminate"
    THEN [l EXCEPT ![acct].deposits = @ - 1, ![acct].paid = 0]
    ELSE l

\* An instruction that fails leaves every variable as it was: such a call is a
\* stuttering step, which the specification allows anyway, so only calls that
\* change something are taken as steps.
Apply(op, acct, res) ==
    LET w == Persist(World, res) IN
    /\ res.err = "Ok" \/ w # World
    /\ registry' = w.reg
    /\ service' = w.svc
    /\ agent_ids_index' = w.ids
    /\ agent_param' = w.param
    /\ slot_counter' = w.slot
    /\ agent_instances_index' = w.insts
    /\ service_agent_instance' = w.sai
    /\ operator_agent_instance' = w.oai
    /\ operator_agent_instance_index' = w.oidx
    /\ operator_bond' = w.bond
    /\ registry_multisig' = w.wlx
    /\ authorized_multisigs' = w.wl
    /\ multisig_accounts' = w.msig
    /\ lamports' = w.bal
    /\ last' = IF res.err = "Ok" THEN [op |-> op, acct |-> acct] ELSE last
    /\ ledger' = IF res.err = "Ok" THEN Book(ledger, op, acct, World, w) ELSE ledger
    /\ drained' = IF res.err = "Ok" /\ op = "drain"
                  THEN drained + (World.bal[Wallet] - w.bal[Wallet]) ELSE drained

(***************************************************************************)
(* create                                                                  *)
(***************************************************************************)
\* create returning without releasing the registry lock
create_holding_lock(w, user, a, config_hash, service_owner, threshold) ==
    IF w.svc[a].state # "NonExistent" THEN Fail("AccountInUse", w)
    ELSE IF user # w.reg.manager THEN Fail("ConstraintAddress", w)
    ELSE IF w.reg.locked THEN Fail("ReentrancyGuard", w)
    ELSE
    LET w1 == [w EXCEPT !.reg.locked = TRUE] IN
    IF user # w1.reg.manager THEN Fail("InvalidAccountOwner", w1)
    ELSE IF service_owner = ZeroKey THEN Fail("InvalidArgument", w1)
    ELSE IF config_hash = 0 THEN Fail("ZeroConfigHash", w1)
    ELSE
    LET service_id == w1.reg.total_supply + 1
        s == [EmptyService EXCEPT
                !.service_id = service_id,
                !.service_owner = service_owner,
                !.security_deposit = 0,
                !.config_hash = config_hash,
                !.max_num_agent_instances = 0,
                !.num_agent_instances = 0,
                !.state = "PreRegistration",
                !.threshold = IF threshold # NoThreshold THEN threshold ELSE 0]
    IN Done([w1 EXCEPT !.svc[a] = s,
                       !.reg.total_supply = service_id])

\* create assigning total_supply as the id without advancing it
create_reusing_id(w, user, a, config_hash, service_owner, threshold) ==
    IF w.svc[a].state # "NonExistent" THEN Fail("AccountInUse", w)
    ELSE IF user # w.reg.manager THEN Fail("ConstraintAddress", w)
    ELSE IF w.reg.locked THEN Fail("ReentrancyGuard", w)
    ELSE
    LET w1 == [w EXCEPT !.reg.locked = TRUE] IN
    IF user # w1.reg.manager THEN Fail("InvalidAccountOwner", w1)
    ELSE IF service_owner = ZeroKey THEN Fail("InvalidArgument", w1)
    ELSE IF config_hash = 0 THEN Fail("ZeroConfigHash", w1)
    ELSE
    LET service_id == w1.reg.total_supply
        s == [EmptyService EXCEPT
                !.service_id = service_id,
                !.service_owner = service_owner,
                !.security_deposit = 0,
                !.config_hash = config_hash,
                !.max_num_agent_instances = 0,
                !.num_agent_instances = 0,
                !.state = "PreRegistration",
                !.threshold = IF threshold # NoThreshold THEN threshold ELSE 0]
    IN Done([w1 EXCEPT !.svc[a] = s,
                       !.reg.total_supply = service_id,
                       !.reg.locked = FALSE])

create(w, user, a, config_hash, service_owner, threshold) ==
    IF w.svc[a].state # "NonExistent" THEN Fail("AccountInUse", w)
    ELSE IF user # w.reg.manager THEN Fail("ConstraintAddress", w)
    ELSE IF w.reg.locked THEN Fail("ReentrancyGuard", w)
    ELSE
    LET w1 == [w EXCEPT !.reg.locked = TRUE] IN
    IF user # w1.reg.manager THEN Fail("InvalidAccountOwner", w1)
    ELSE IF service_owner = ZeroKey THEN Fail("InvalidArgument", w1)
    ELSE IF config_hash = 0 THEN Fail("ZeroConfigHash", w1)
    ELSE
    LET service_id == w1.reg.total_supply + 1
        s == [EmptyService EXCEPT
                !.service_id = service_id,
                !.service_owner = service_owner,
                !.security_deposit = 0,
                !.config_hash = config_hash,
                !.max_num_agent_instances = 0,
                !.num_agent_instances = 0,
                !.state = "PreRegistration",
                !.threshold = IF threshold # NoThreshold THEN threshold ELSE 0]
    IN Done([w1 EXCEPT !.svc[a] = s,
                       !.reg.total_supply = service_id,
                       !.reg.locked = FALSE])

\* the calls of create and update on account a: right and wrong callers, owners
\* and hashes with every threshold
ConfigCalls(D, a) ==
    {[user |-> c.user, service_owner |-> c.owner, config_hash |-> h, threshold |-> t] :
         c \in CallShapes, h \in {0, a}, t \in D.thresholds}

create_call(w, a, c) ==
    create(w, c.user, a, c.config_hash, c.service_owner, c.threshold)

Create(D) ==
    \E a \in D.accts :
        /\ service[a].state = "NonExistent"
        /\ \E c \in ConfigCalls(D, a) : Apply("create", a, create_call(World, a, c))

(***************************************************************************)
(* validate_threshold: the threshold is stored before it is checked.       *)
(***************************************************************************)
ThresholdLow(max) == DivCeil(max * 2 + 1, 3)

\* validate_threshold with the lower bound left out
validate_threshold_upper_only(s, threshold) ==
    LET s1 == IF threshold # NoThreshold THEN [s EXCEPT !.threshold = threshold] ELSE s
    IN  IF s1.threshold > s1.max_num_agent_instances
        THEN [err |-> "WrongThreshold2", s |-> s1]
        ELSE [err |-> "Ok", s |-> s1]

validate_threshold(s, threshold) ==
    LET s1 == IF threshold # NoThreshold THEN [s EXCEPT !.threshold = threshold] ELSE s
        check_threshold == ThresholdLow(s1.max_num_agent_instances)
    IN  IF s1.threshold < check_threshold THEN [err |-> "WrongThreshold", s |-> s1]
        ELSE IF s1.threshold > s1.max_num_agent_instances
             THEN [err |-> "WrongThreshold2", s |-> s1]
        ELSE [err |-> "Ok", s |-> s1]

(***************************************************************************)
(* update                                                                  *)
(***************************************************************************)
update(w, user, a, config_hash, service_owner, threshold) ==
    IF w.svc[a].state = "NonExistent" THEN Fail("AccountNotInitialized", w)
    ELSE IF user # w.reg.manager THEN Fail("ConstraintAddress", w)
    ELSE IF user # w.reg.manager THEN Fail("InvalidAccountOwner", w)
    ELSE IF w.svc[a].service_owner # service_owner THEN Fail("InvalidArgument", w)
    ELSE IF w.svc[a].state # "PreRegistration" THEN Fail("WrongServiceState", w)
    ELSE IF config_hash = 0 THEN Fail("ZeroConfigHash", w)
    ELSE
    LET v == validate_threshold(w.svc[a], threshold)
        w1 == [w EXCEPT !.svc[a] = v.s]
    IN  IF v.err # "Ok" THEN Fail(v.err, w1)
        ELSE Done([w1 EXCEPT !.svc[a].config_hash = config_hash])

update_call(w, a, c) ==
    update(w, c.user, a, c.config_hash, c.service_owner, c.threshold)

Update(D) ==
    \E a \in D.accts :
        /\ service[a].state = "PreRegistration"
        /\ \E c \in ConfigCalls(D, a) : Apply("update", a, update_call(World, a, c))

(***************************************************************************)
(* register_agent_ids_to_service (the role-table update)                   *)
(***************************************************************************)
\* initial_checks comparing neighbouring ids with < instead of <=
initial_checks_allowing_equal_ids(agent_ids, agent_params) ==
    IF Len(agent_ids) = 0 \/ Len(agent_ids) # Len(agent_params) THEN "WrongArrayLength"
    ELSE IF \E i \in 2..Len(agent_ids) : agent_ids[i] < agent_ids[i - 1]
         THEN "WrongAgentId"
    ELSE IF \E i \in 1..Len(agent_ids) :
               \/ agent_params[i].slots = 0 /\ agent_params[i].bond # 0
               \/ agent_params[i].slots # 0 /\ agent_params[i].bond = 0
         THEN "ZeroValue"
    ELSE "Ok"

initial_checks(agent_ids, agent_params) ==
    IF Len(agent_ids) = 0 \/ Len(agent_ids) # Len(agent_params) THEN "WrongArrayLength"
    ELSE IF \E i \in 2..Len(agent_ids) : agent_ids[i] <= agent_ids[i - 1]
         THEN "WrongAgentId"
    ELSE IF \E i \in 1..Len(agent_ids) :
               \/ agent_params[i].slots = 0 /\ agent_params[i].bond # 0
               \/ agent_params[i].slots # 0 /\ agent_params[i].bond = 0
         THEN "ZeroValue"
    ELSE "Ok"

IndexOf(vec, agent_id) ==
    IF \E i \in 1..Len(vec) : vec[i].agent_id = agent_id
    THEN CHOOSE i \in 1..Len(vec) :
             /\ vec[i].agent_id = agent_id
             /\ \A j \in 1..(i - 1) : vec[j].agent_id # agent_id
    ELSE 0

RemoveAt(vec, i) == SubSeq(vec, 1, i - 1) \o SubSeq(vec, i + 1, Len(vec))

upsert_agent_param_index(vec, param) ==
    LET i == IndexOf(vec, param.agent_id) IN
    IF i # 0 THEN [vec EXCEPT ![i] = param] ELSE Append(vec, param)

delete_agent_param_index(vec, agent_id) ==
    LET i == IndexOf(vec, agent_id) IN
    IF i # 0 THEN RemoveAt(vec, i) ELSE vec

RECURSIVE AgentIdsLoop(_, _, _, _, _)
AgentIdsLoop(w, a, agent_ids, agent_params, i) ==
    IF i > Len(agent_ids) THEN Done(w)
    ELSE
    LET agent_id == agent_ids[i]
        params == agent_params[i]
    IN  IF params.slots = 0
        THEN \* deletion mode: the parameter account is closed, the index entry removed
             AgentIdsLoop([w EXCEPT !.param[a][agent_id] = EmptyParam,
                                    !.ids[a] = delete_agent_param_index(@, agent_id)],
                          a, agent_ids, agent_params, i + 1)
        ELSE
        LET w1 == [w EXCEPT !.param[a][agent_id] =
                       [slots |-> params.slots, bond |-> params.bond, init |-> TRUE]]
        IN  IF ~(Len(w1.ids[a]) < MAX_AGENT_IDS_PER_SERVICE)
            THEN Fail("MaxAgentIdPerServiceReached", w1)
            ELSE AgentIdsLoop(
                     [w1 EXCEPT !.ids[a] = upsert_agent_param_index(@,
                         [agent_id |-> agent_id, slots |-> params.slots,
                          bond |-> params.bond])],
                     a, agent_ids, agent_params, i + 1)

RECURSIVE SumSlots(_)
SumSlots(vec) ==
    IF vec = <<>> THEN 0 ELSE SaturatingAdd(SumSlots(Tail(vec)), Head(vec).slots)

RECURSIVE MaxBondOf_summing(_)
\* the security deposit as the sum of the bonds
MaxBondOf_summing(vec) ==
    IF vec = <<>> THEN 0 ELSE MaxBondOf_summing(Tail(vec)) + Head(vec).bond

RECURSIVE MaxBondOf(_)
MaxBondOf(vec) ==
    IF vec = <<>> THEN 0 ELSE Max(MaxBondOf(Tail(vec)), Head(vec).bond)

register_agent_ids_to_service(w, user, a, service_owner, agent_ids, agent_params, threshold) ==
    IF w.svc[a].state = "NonExistent" THEN Fail("AccountNotInitialized", w)
    ELSE IF user # w.reg.manager THEN Fail("ConstraintAddress", w)
    ELSE IF initial_checks(agent_ids, agent_params) # "Ok"
         THEN Fail(initial_checks(agent_ids, agent_params), w)
    ELSE IF user # w.reg.manager THEN Fail("UninitializedAccount", w)
    ELSE IF service_owner # w.svc[a].service_owner THEN Fail("InvalidAccountOwner", w)
    ELSE
    LET l == AgentIdsLoop(w, a, agent_ids, agent_params, 1) IN
    IF l.err # "Ok" THEN l
    ELSE
    LET w1 == [l.w EXCEPT
                  !.svc[a].max_num_agent_instances = SumSlots(l.w.ids[a]),
                  !.svc[a].security_deposit = MaxBondOf(l.w.ids[a])]
        v == validate_threshold(w1.svc[a], threshold)
        w2 == [w1 EXCEPT !.svc[a] = v.s]
    IN  IF v.err # "Ok" THEN Fail(v.err, w2) ELSE Done(w2)

\* the parameter values a batch may carry: deletion, the valid pairs, and the
\* two invalid shapes (bond without slots, slots without bond)
GoodParams(bonds) == {[slots |-> 0, bond |-> 0]} \cup
                     {[slots |-> k, bond |-> b] : k \in 1..MaxParam, b \in bonds}
BadParams == {[slots |-> 0, bond |-> 1], [slots |-> 1, bond |-> 0]}
One == [slots |-> 1, bond |-> 1]

\* batches that initial_checks rejects
BadBatches ==
    {[ids |-> <<1>>, params |-> <<p>>] : p \in BadParams}
    \cup {[ids |-> <<>>, params |-> <<>>],
          [ids |-> <<1, 2>>, params |-> <<One>>],
          [ids |-> <<2, 1>>, params |-> <<One, One>>],
          [ids |-> <<1, 1>>, params |-> <<One, One>>]}

\* the batches over the role ids rs with bonds from bonds
Batches(rs, bonds) ==
    {[ids |-> <<r>>, params |-> <<p>>] : r \in rs, p \in GoodParams(bonds)}
    \cup (IF rs = Roles
          THEN {[ids |-> <<1, 2>>, params |-> <<p, q>>] :
                    p \in GoodParams(bonds), q \in GoodParams(bonds)}
          ELSE {})
    \cup BadBatches

\* the role-table updates: every batch and threshold with the right caller and
\* owner, and one batch with each wrong one
RoleCalls(D) ==
    {[user |-> c.user, service_owner |-> c.owner, batch |-> b, threshold |-> t] :
         c \in {RightShape}, b \in D.batches, t \in D.thresholds}
    \cup {[user |-> c.user, service_owner |-> c.owner,
           batch |-> [ids |-> <<1>>, params |-> <<One>>], threshold |-> 1] :
              c \in CallShapes}

role_call(w, a, c) ==
    register_agent_ids_to_service(w, c.user, a, c.service_owner, c.batch.ids,
                                  c.batch.params, c.threshold)

RegisterAgentIds(D) ==
    \E a \in D.accts :
        /\ service[a].state # "NonExistent"
        /\ \E c \in RoleCalls(D) :
               Apply("register_agent_ids_to_service", a, role_call(World, a, c))

(***************************************************************************)
(* The system program's transfer: fails when the payer holds too little.   *)
(***************************************************************************)
\* a transfer that debits the payer without crediting the payee
Transfer_debit_only(bal, from, to, amount) ==
    IF bal[from] < amount THEN [ok |-> FALSE, bal |-> bal]
    ELSE [ok |-> TRUE, bal |-> [bal EXCEPT ![from] = @ - amount]]

Transfer(bal, from, to, amount) ==
    IF bal[from] < amount THEN [ok |-> FALSE, bal |-> bal]
    ELSE IF from = to THEN [ok |-> TRUE, bal |-> bal]
    ELSE [ok |-> TRUE,
          bal |-> [bal EXCEPT ![from] = @ - amount, ![to] = @ + amount]]

(***************************************************************************)
(* activate_registration                                                   *)
(***************************************************************************)
activate_registration(w, user, a, service_id, service_owner) ==
    IF w.svc[a].state = "NonExistent" THEN Fail("AccountNotInitialized", w)
    ELSE IF user # w.reg.manager THEN Fail("ConstraintAddress", w)
    ELSE IF user # w.reg.manager THEN Fail("InvalidAccountOwner", w)
    ELSE IF service_owner = ZeroKey THEN Fail("InvalidArgument", w)
    ELSE IF w.svc[a].service_id # service_id THEN Fail("RequireEqViolated", w)
    ELSE IF w.svc[a].state # "PreRegistration" THEN Fail("ServiceMustBeInactive", w)
    ELSE
    LET user_pre_balance == w.bal[user]
        transfer_amount == w.svc[a].security_deposit
    IN  IF ~(user_pre_balance >= transfer_amount)
        THEN Fail("IncorrectRegistrationDepositValue", w)
        ELSE
        LET t == Transfer(w.bal, user, Wallet, transfer_amount)
            w1 == [w EXCEPT !.bal = t.bal]
            user_post_balance == w1.bal[user]
        IN  IF ~t.ok THEN Fail("InsufficientFundsForTransfer", w1)
            ELSE IF user_pre_balance < user_post_balance THEN Fail("Overflow", w1)
            ELSE IF user_pre_balance - user_post_balance # transfer_amount
                 THEN Fail("IncorrectRegistrationDepositValue", w1)
            ELSE Done([w1 EXCEPT !.svc[a].state = "ActiveRegistration"])

\* id is the service's id: a call names it or a wrong one
ActivateCalls(id) ==
    {[user |-> c.user, service_owner |-> c.owner, service_id |-> n] :
         c \in CallShapes, n \in {id, 0}}

activate_call(w, a, c) ==
    activate_registration(w, c.user, a, c.service_id, c.service_owner)

ActivateRegistration(D) ==
    \E a \in D.accts :
        /\ service[a].state = "PreRegistration"
        /\ \E c \in ActivateCalls(service[a].service_id) :
               Apply("activate_registration", a, activate_call(World, a, c))

(***************************************************************************)
(* register_agents                                                         *)
(***************************************************************************)
\* check_access_and_state without the state check
check_access_and_state_any_state(w, user, a, agent_instances, agent_ids) ==
    IF user # w.reg.manager THEN "InvalidAccountOwner"
    ELSE IF Len(agent_instances) # Len(agent_ids) THEN "WrongArrayLength"
    ELSE "Ok"

check_access_and_state(w, user, a, agent_instances, agent_ids) ==
    IF user # w.reg.manager THEN "InvalidAccountOwner"
    ELSE IF Len(agent_instances) # Len(agent_ids) THEN "WrongArrayLength"
    ELSE IF w.svc[a].state # "ActiveRegistration" THEN "WrongServiceState"
    ELSE "Ok"

\* param_accounts[i] names the AgentParamAccount supplied for agent_ids[i]: the
\* handler reads it without deriving its address
RECURSIVE load_and_validate_agent_params(_, _, _, _)
load_and_validate_agent_params(w, agent_ids, param_accounts, i) ==
    IF i > Len(agent_ids) THEN [err |-> "Ok", agent_params |-> <<>>, total_bond |-> 0]
    ELSE IF i > Len(param_accounts)
         THEN [err |-> "NotEnoughAccountKeys", agent_params |-> <<>>, total_bond |-> 0]
    ELSE
    LET param == w.param[param_accounts[i].acct][param_accounts[i].agent_id] IN
    IF ~param.init
    THEN [err |-> "ProgramFailedToComplete", agent_params |-> <<>>, total_bond |-> 0]
    ELSE IF ~(param.slots > 0)
    THEN [err |-> "AgentNotInService", agent_params |-> <<>>, total_bond |-> 0]
    ELSE
    LET rest == load_and_validate_agent_params(w, agent_ids, param_accounts, i + 1) IN
    IF rest.err # "Ok" THEN rest
    ELSE [err |-> "Ok", agent_params |-> <<param>> \o rest.agent_params,
          total_bond |-> param.bond + rest.total_bond]

transfer_bond(w, user, transfer_amount) ==
    LET user_pre_balance == w.bal[user] IN
    IF ~(user_pre_balance >= transfer_amount)
    THEN Fail("IncorrectRegistrationDepositValue", w)
    ELSE
    LET t == Transfer(w.bal, user, Wallet, transfer_amount)
        w1 == [w EXCEPT !.bal = t.bal]
        user_post_balance == w1.bal[user]
    IN  IF ~t.ok THEN Fail("InsufficientFundsForTransfer", w1)
        ELSE IF user_pre_balance < user_post_balance THEN Fail("Overflow", w1)
        ELSE IF user_pre_balance - user_post_balance # transfer_amount
             THEN Fail("IncorrectRegistrationDepositValue", w1)
        ELSE Done(w1)

\* the operator-as-agent record is never created by any instruction, so the
\* supplied account is always empty
validate_operator(operator) ==
    IF operator = ZeroKey THEN "InvalidArgument" ELSE "Ok"

register_single_instance(w, a, agent_id, agent_instance, param, operator) ==
    LET w1 == [w EXCEPT !.insts[a] = Append(@, agent_instance)] IN
    IF Len(w1.insts[a]) > MAX_AGENT_INSTANCES_PER_SERVICE
    THEN Fail("AccountDidNotSerialize", w1)
    ELSE IF ~(w1.slot[a][agent_id] < param.slots % U8)
    THEN Fail("AgentInstancesSlotsFilled", w1)
    ELSE
    LET w2 == [w1 EXCEPT !.slot[a][agent_id] = @ + 1] IN
    IF <<a, agent_id, agent_instance>> \in w2.sai
    THEN Fail("AccountServiceAgentIdInstanceExists", w2)
    ELSE
    LET w3 == [w2 EXCEPT !.sai = @ \cup {<<a, agent_id, agent_instance>>}] IN
    IF <<agent_instance, operator>> \in w3.oai
    THEN Fail("AccountAgentIdInstanceOperatorExists", w3)
    ELSE
    LET w4 == [w3 EXCEPT !.oai = @ \cup {<<agent_instance, operator>>},
                         !.svc[a].num_agent_instances = @ + 1]
    IN
    IF ~(w4.svc[a].num_agent_instances <= w4.svc[a].max_num_agent_instances)
    THEN Fail("IncorrectAgentInstances", w4)
    ELSE IF ~(Len(w4.oidx[a][operator]) < MAX_AGENT_INSTANCES_PER_SERVICE)
    THEN Fail("MaxAgentInstancesPerServiceReached", w4)
    ELSE Done([w4 EXCEPT !.oidx[a][operator] = Append(@, <<agent_instance, operator>>)])

RECURSIVE RegisterLoop(_, _, _, _, _, _, _)
RegisterLoop(w, a, agent_ids, agent_instances, agent_params, operator, i) ==
    IF i > Len(agent_ids) THEN Done(w)
    ELSE
    LET r == register_single_instance(w, a, agent_ids[i], agent_instances[i],
                                      agent_params[i], operator)
    IN  IF r.err # "Ok" THEN r
        ELSE RegisterLoop(r.w, a, agent_ids, agent_instances, agent_params,
                          operator, i + 1)

\* update_operator_bond crediting the call's bond twice
update_operator_bond_twice(w, a, operator, total_bond) ==
    Done([w EXCEPT !.bond[a][operator] =
              [bond |-> @.bond + total_bond + total_bond, init |-> TRUE]])

update_operator_bond(w, a, operator, total_bond) ==
    Done([w EXCEPT !.bond[a][operator] = [bond |-> @.bond + total_bond, init |-> TRUE]])

register_agents(w, user, a, operator, agent_instances, agent_ids, param_accounts) ==
    IF w.svc[a].state = "NonExistent" THEN Fail("AccountNotInitialized", w)
    ELSE IF user # w.reg.manager THEN Fail("ConstraintAddress", w)
    ELSE IF check_access_and_state(w, user, a, agent_instances, agent_ids) # "Ok"
    THEN Fail(check_access_and_state(w, user, a, agent_instances, agent_ids), w)
    ELSE
    LET p == load_and_validate_agent_params(w, agent_ids, param_accounts, 1) IN
    IF p.err # "Ok" THEN Fail(p.err, w)
    ELSE
    LET t == transfer_bond(w, user, p.total_bond) IN
    IF t.err # "Ok" THEN t
    ELSE IF validate_operator(operator) # "Ok" THEN Fail(validate_operator(operator), t.w)
    ELSE
    LET l == RegisterLoop(t.w, a, agent_ids, agent_instances, p.agent_params,
                          operator, 1)
    IN
    IF l.err # "Ok" THEN l
    ELSE
    LET w1 == IF l.w.svc[a].num_agent_instances = l.w.svc[a].max_num_agent_instances
              THEN [l.w EXCEPT !.svc[a].state = "FinishedRegistration"]
              ELSE l.w
    IN  update_operator_bond(w1, a, operator, p.total_bond)

\* one registration request: the instance, the role id asked for, and the
\* parameter account handed in for it
Pairs(D) == {[inst |-> x, agent_id |-> r, acct |-> pa] :
                 x \in D.instances, r \in Roles, pa \in D.param_accounts}
\* the pairs that hand in the parameter account of the role they ask for
OwnPairs(D, a) == {[inst |-> x, agent_id |-> r, acct |-> <<a, r>>] :
                      x \in D.instances, r \in Roles}

Requests(D, a) ==
    {<<>>} \cup {<<p>> : p \in Pairs(D) \cup OwnPairs(D, a)}
           \cup {<<p, q>> : p \in OwnPairs(D, a), q \in OwnPairs(D, a)}

\* the argument arrays and the remaining accounts of a request
InstsOf(rq) == [i \in 1..Len(rq) |-> rq[i].inst]
AgentIdsOf(rq) == [i \in 1..Len(rq) |-> rq[i].agent_id]
ParamAcctsOf(rq) ==
    [i \in 1..Len(rq) |-> [acct |-> rq[i].acct[1], agent_id |-> rq[i].acct[2]]]

\* the registrations: every request by the manager for a real operator, and the
\* empty request with each wrong caller, operator or array length
RegisterCalls(D, a) ==
    {[user |-> Manager, operator |-> o, agent_instances |-> InstsOf(rq),
      agent_ids |-> AgentIdsOf(rq), param_accounts |-> ParamAcctsOf(rq)] :
         o \in D.operators, rq \in Requests(D, a)}
    \cup {[user |-> u, operator |-> o, agent_instances |-> xs,
           agent_ids |-> <<>>, param_accounts |-> <<>>] :
              u \in {Manager, Admin}, o \in D.operators \cup {ZeroKey},
              xs \in {<<>>, <<"x1">>}}

register_call(w, a, c) ==
    register_agents(w, c.user, a, c.operator, c.agent_instances, c.agent_ids,
                    c.param_accounts)

RegisterAgents(D) ==
    \E a \in D.accts :
        /\ service[a].state = "ActiveRegistration"
        /\ \E c \in RegisterCalls(D, a) :
               Apply("register_agents", a, register_call(World, a, c))

(***************************************************************************)
(* change_multisig_permission and the whitelist                            *)
(***************************************************************************)
\* a membership test that finds nothing
ContainsNothing(vec, x) == FALSE

Contains(vec, x) == \E i \in 1..Len(vec) : vec[i] = x

RECURSIVE Retain(_, _)
Retain(vec, x) ==
    IF vec = <<>> THEN <<>>
    ELSE IF Head(vec) = x THEN Retain(Tail(vec), x)
    ELSE <<Head(vec)>> \o Retain(Tail(vec), x)

is_authorized(wl, multisig) == Contains(wl, multisig)

\* the RegistryMultisig account is created, if it does not exist yet, before
\* the handler's body runs
change_multisig_permission(w0, user, multisig, permission) ==
    IF user # w0.reg.owner THEN Fail("ConstraintAddress", w0)
    ELSE
    LET w == [w0 EXCEPT !.wlx = TRUE] IN
    IF user # w.reg.owner THEN Fail("IllegalOwner", w)
    ELSE IF multisig = ZeroKey THEN Fail("InvalidArgument", w)
    ELSE IF permission /\ Len(w.wl) >= MAX_MULTISIGS THEN Fail("MaxMultiSigsReached", w)
    ELSE IF permission
         THEN IF ~Contains(w.wl, multisig)
              THEN Done([w EXCEPT !.wl = Append(@, multisig)])
              ELSE Done(w)
    ELSE Done([w EXCEPT !.wl = Retain(@, multisig)])

PermissionCalls(D) ==
    {[user |-> u, multisig |-> m, permission |-> p] :
         u \in {Admin, Manager}, m \in D.impls \cup {ZeroKey}, p \in D.permissions}

permission_call(w, c) ==
    change_multisig_permission(w, c.user, c.multisig, c.permission)

ChangeMultisigPermission(D) ==
    \E c \in PermissionCalls(D) :
        /\ c.user = registry.owner
        /\ Apply("change_multisig_permission", 0, permission_call(World, c))

(***************************************************************************)
(* deploy                                                                  *)
(***************************************************************************)
\* The multisig PDA is derived from the hash of the concatenated instance keys:
\* the list itself stands for it.  has_account says whether the caller handed
\* in the account the multisig is created at.
create_multisig(w, agent_instances, threshold, has_account) ==
    IF ~(threshold > 0 /\ threshold <= Len(agent_instances))
    THEN [err |-> "WrongThreshold", w |-> w, pda |-> <<>>]
    ELSE IF ~has_account
    THEN [err |-> "ProgramFailedToComplete", w |-> w, pda |-> <<>>]
    ELSE IF \E m \in w.msig : m.agent_instances = agent_instances
    THEN [err |-> "AccountAlreadyInUse", w |-> w, pda |-> <<>>]
    ELSE [err |-> "Ok",
          w |-> [w EXCEPT !.msig = @ \cup {[agent_instances |-> agent_instances,
                                            threshold |-> threshold]}],
          pda |-> agent_instances]

\* deploy without the whitelist check
deploy_any_implementation(w, user, a, service_owner, service_id, multisig_implementation, agent_instances, has_account) ==
    IF w.svc[a].state = "NonExistent" \/ ~w.wlx THEN Fail("AccountNotInitialized", w)
    ELSE IF w.svc[a].service_owner # service_owner THEN Fail("ConstraintAddress", w)
    ELSE IF w.reg.locked THEN Fail("ReentrancyGuard", w)
    ELSE
    LET w1 == [w EXCEPT !.reg.locked = TRUE] IN
    IF user # w1.reg.manager THEN Fail("InvalidAccountOwner", w1)
    ELSE IF w1.svc[a].service_owner # service_owner THEN Fail("InvalidArgument", w1)
    ELSE IF w1.svc[a].service_id # service_id THEN Fail("RequireEqViolated", w1)
    ELSE
    LET m == create_multisig(w1, agent_instances, w1.svc[a].threshold, has_account) IN
    IF m.err # "Ok" THEN Fail(m.err, m.w)
    ELSE Done([m.w EXCEPT !.svc[a].multisig = m.pda,
                          !.svc[a].state = "Deployed",
                          !.reg.locked = FALSE])

deploy(w, user, a, service_owner, service_id, multisig_implementation, agent_instances, has_account) ==
    IF w.svc[a].state = "NonExistent" \/ ~w.wlx THEN Fail("AccountNotInitialized", w)
    ELSE IF w.svc[a].service_owner # service_owner THEN Fail("ConstraintAddress", w)
    ELSE IF w.reg.locked THEN Fail("ReentrancyGuard", w)
    ELSE
    LET w1 == [w EXCEPT !.reg.locked = TRUE] IN
    IF user # w1.reg.manager THEN Fail("InvalidAccountOwner", w1)
    ELSE IF w1.svc[a].service_owner # service_owner THEN Fail("InvalidArgument", w1)
    ELSE IF w1.svc[a].service_id # service_id THEN Fail("RequireEqViolated", w1)
    ELSE IF ~is_authorized(w1.wl, multisig_implementation)
    THEN Fail("UnauthorizedMultisig", w1)
    ELSE
    LET m == create_multisig(w1, agent_instances, w1.svc[a].threshold, has_account) IN
    IF m.err # "Ok" THEN Fail(m.err, m.w)
    ELSE Done([m.w EXCEPT !.svc[a].multisig = m.pda,
                          !.svc[a].state = "Deployed",
                          !.reg.locked = FALSE])

\* the deployments: every instance list with the right caller, owner and id,
\* and the empty list with each wrong one or without the multisig account
DeployCalls(D, id) ==
    {[user |-> Manager, service_owner |-> SvcOwner, service_id |-> id,
      multisig_implementation |-> m, agent_instances |-> lst, has_account |-> TRUE] :
         m \in D.impls \cup {ZeroKey}, lst \in D.lists}
    \cup {[user |-> c.user, service_owner |-> c.owner, service_id |-> n,
           multisig_implementation |-> m, agent_instances |-> <<>>, has_account |-> h] :
              c \in CallShapes, n \in {id, 0}, m \in D.impls, h \in BOOLEAN}

deploy_call(w, a, c) ==
    deploy(w, c.user, a, c.service_owner, c.service_id, c.multisig_implementation,
           c.agent_instances, c.has_account)

Deploy(D) ==
    \E a \in D.accts :
        /\ service[a].state # "NonExistent"
        /\ \E c \in DeployCalls(D, service[a].service_id) :
               Apply("deploy", a, deploy_call(World, a, c))

(***************************************************************************)
(* slash                                                                   *)
(***************************************************************************)
\* records[i] is the operator of the OperatorAgentInstanceAccount handed in for
\* agent_instances[i] (ZeroKey: an account that does not exist)
RECURSIVE SlashLoop(_, _, _, _, _, _)
SlashLoop(w, a, agent_instances, amounts, records, i) ==
    IF i > Len(agent_instances) THEN Done(w)
    ELSE IF i > Len(records) THEN Fail("NotEnoughAccountKeys", w)
    ELSE
    LET operator == records[i]
        amount_to_slash == amounts[i]
    IN
    IF operator = ZeroKey THEN Fail("AccountNotInitialized", w)
    ELSE IF <<agent_instances[i], operator>> \notin w.oai THEN Fail("InvalidPda", w)
    ELSE IF ~w.bond[a][operator].init THEN Fail("AccountNotInitialized", w)
    ELSE
    LET current_bond == w.bond[a][operator].bond IN
    IF ~(amount_to_slash > 0) THEN Fail("InvalidSlashAmount", w)
    ELSE IF ~(current_bond > 0) THEN Fail("IncorrectAgentBondingValue", w)
    ELSE
    LET slashed_amount == Min(current_bond, amount_to_slash) IN
    SlashLoop([w EXCEPT !.bond[a][operator].bond = @ - slashed_amount,
                        !.reg.slashed_funds = @ + slashed_amount],
              a, agent_instances, amounts, records, i + 1)

\* slash without the state check
slash_any_state(w, user, a, service_id, agent_instances, amounts, records) ==
    IF w.svc[a].state = "NonExistent" THEN Fail("AccountNotInitialized", w)
    ELSE IF user # w.svc[a].multisig THEN Fail("ConstraintAddress", w)
    ELSE IF w.svc[a].service_id # service_id THEN Fail("RequireEqViolated", w)
    ELSE IF ~(Len(agent_instances) = Len(amounts)) THEN Fail("WrongArrayLength", w)
    ELSE IF user # w.svc[a].multisig THEN Fail("OnlyOwnServiceMultisig", w)
    ELSE SlashLoop(w, a, agent_instances, amounts, records, 1)

slash(w, user, a, service_id, agent_instances, amounts, records) ==
    IF w.svc[a].state = "NonExistent" THEN Fail("AccountNotInitialized", w)
    ELSE IF user # w.svc[a].multisig THEN Fail("ConstraintAddress", w)
    ELSE IF w.svc[a].service_id # service_id THEN Fail("RequireEqViolated", w)
    ELSE IF ~(w.svc[a].state = "Deployed") THEN Fail("WrongServiceState", w)
    ELSE IF ~(Len(agent_instances) = Len(amounts)) THEN Fail("WrongArrayLength", w)
    ELSE IF user # w.svc[a].multisig THEN Fail("OnlyOwnServiceMultisig", w)
    ELSE SlashLoop(w, a, agent_instances, amounts, records, 1)

SlashItems(D) == {[inst |-> x, amount |-> n, operator |-> o] :
                     x \in D.instances, n \in D.amounts, o \in D.operators}
AmountsOf(rq) == [i \in 1..Len(rq) |-> rq[i].amount]
OperatorsOf(rq) == [i \in 1..Len(rq) |-> rq[i].operator]

\* the callers of slash are multisigs (instance lists): those of the
\* deployments and one that was never created
SlashCalls(D, id) ==
    {[user |-> u, service_id |-> n, agent_instances |-> InstsOf(rq),
      amounts |-> AmountsOf(rq), records |-> OperatorsOf(rq)] :
         u \in D.lists \cup {<<"x1">>}, n \in {id},
         rq \in {<<>>} \cup {<<p>> : p \in SlashItems(D)}}
    \cup {[user |-> u, service_id |-> n, agent_instances |-> xs,
           amounts |-> <<>>, records |-> <<>>] :
              u \in D.lists, n \in {id, 0}, xs \in {<<>>, <<"x1">>}}

slash_call(w, a, c) ==
    slash(w, c.user, a, c.service_id, c.agent_instances, c.amounts, c.records)

Slash(D) ==
    \E a \in D.accts :
        /\ service[a].state = "Deployed"
        /\ \E c \in SlashCalls(D, service[a].service_id) :
               Apply("slash", a, slash_call(World, a, c))

(***************************************************************************)
(* drain                                                                   *)
(***************************************************************************)
\* drain paying slashed_funds out without zeroing it
drain_keeping_funds(w, drainer) ==
    IF w.reg.locked THEN Fail("ReentrancyGuard", w)
    ELSE
    LET w1 == [w EXCEPT !.reg.locked = TRUE] IN
    IF drainer # w1.reg.drainer THEN Fail("IllegalOwner", w1)
    ELSE
    LET amount == w1.reg.slashed_funds IN
    IF amount > 0
    THEN LET w2 == w1 IN
         IF w2.bal[Wallet] < amount THEN Fail("InsufficientFunds", w2)
         ELSE Done([w2 EXCEPT !.bal[Wallet] = @ - amount,
                              !.bal[drainer] = @ + amount,
                              !.reg.locked = FALSE])
    ELSE Done([w1 EXCEPT !.reg.locked = FALSE])

\* drain without the lock check
drain_unguarded(w, drainer) ==
    LET w1 == [w EXCEPT !.reg.locked = TRUE] IN
    IF drainer # w1.reg.drainer THEN Fail("IllegalOwner", w1)
    ELSE
    LET amount == w1.reg.slashed_funds IN
    IF amount > 0
    THEN LET w2 == [w1 EXCEPT !.reg.slashed_funds = 0] IN
         IF w2.bal[Wallet] < amount THEN Fail("InsufficientFunds", w2)
         ELSE Done([w2 EXCEPT !.bal[Wallet] = @ - amount,
                              !.bal[drainer] = @ + amount,
                              !.reg.locked = FALSE])
    ELSE Done([w1 EXCEPT !.reg.locked = FALSE])

drain(w, drainer) ==
    IF w.reg.locked THEN Fail("ReentrancyGuard", w)
    ELSE
    LET w1 == [w EXCEPT !.reg.locked = TRUE] IN
    IF drainer # w1.reg.drainer THEN Fail("IllegalOwner", w1)
    ELSE
    LET amount == w1.reg.slashed_funds IN
    IF amount > 0
    THEN LET w2 == [w1 EXCEPT !.reg.slashed_funds = 0] IN
         IF w2.bal[Wallet] < amount THEN Fail("InsufficientFunds", w2)
         ELSE Done([w2 EXCEPT !.bal[Wallet] = @ - amount,
                              !.bal[drainer] = @ + amount,
                              !.reg.locked = FALSE])
    ELSE Done([w1 EXCEPT !.reg.locked = FALSE])

DrainCalls == {Drainer, Manager}

Drain ==
    \E drainer \in DrainCalls :
        /\ drainer = registry.drainer
        /\ Apply("drain", 0, drain(World, drainer))

(***************************************************************************)
(* terminate                                                               *)
(***************************************************************************)
\* closes the slot counter of every role of the index handed in and, for each of
\* them, the ownership record of every indexed instance; the instance index
\* must be an initialized account as soon as one role is visited
RECURSIVE TerminateLoop(_, _, _, _)
TerminateLoop(w, a, table, i) ==
    IF i > Len(table) THEN Done(w)
    ELSE
    LET agent_id == table[i].agent_id
        w1 == [w EXCEPT !.slot[a][agent_id] = 0]
    IN  IF w1.insts[a] = <<>> THEN Fail("AccountNotInitialized", w1)
        ELSE TerminateLoop(
                 [w1 EXCEPT !.sai = @ \ {<<a, agent_id, w1.insts[a][k]>> :
                                            k \in 1..Len(w1.insts[a])}],
                 a, table, i + 1)

\* the state terminate assigns, with the count ignored
terminated_state_ignoring_count(num_agent_instances) == "PreRegistration"

\* the state terminate assigns
terminated_state(num_agent_instances) ==
    IF num_agent_instances > 0 THEN "TerminatedBonded" ELSE "PreRegistration"

\* terminate refunding the deposit without zeroing it
terminate_keeping_deposit(w, user, a, service_owner, service_id, ix) ==
    IF w.svc[a].state = "NonExistent" \/ w.ids[ix] = <<>>
    THEN Fail("AccountNotInitialized", w)
    ELSE IF w.svc[a].service_owner # service_owner \/ user # w.reg.manager
    THEN Fail("ConstraintAddress", w)
    ELSE IF w.reg.locked THEN Fail("ReentrancyGuard", w)
    ELSE
    LET w1 == [w EXCEPT !.reg.locked = TRUE] IN
    IF user # w1.reg.manager THEN Fail("InvalidAccountOwner", w1)
    ELSE IF w1.svc[a].service_owner # service_owner THEN Fail("InvalidArgument", w1)
    ELSE IF service_id # w1.svc[a].service_id THEN Fail("RequireEqViolated", w1)
    ELSE IF ~(w1.svc[a].state # "PreRegistration" /\ w1.svc[a].state # "TerminatedBonded")
    THEN Fail("WrongServiceState", w1)
    ELSE
    LET w2 == [w1 EXCEPT !.svc[a].state =
                   terminated_state(w1.svc[a].num_agent_instances)]
        l == TerminateLoop(w2, a, w2.ids[ix], 1)
    IN
    IF l.err # "Ok" THEN l
    ELSE
    LET w3 == [l.w EXCEPT !.insts[a] = <<>>]
        refund == w3.svc[a].security_deposit
    IN
    IF refund > 0
    THEN LET w4 == w3 IN
         IF ~(w4.bal[Wallet] >= refund) THEN Fail("InsufficientFunds", w4)
         ELSE Done([w4 EXCEPT !.bal[Wallet] = @ - refund,
                              !.bal[service_owner] = @ + refund,
                              !.ids[ix] = <<>>,
                              !.reg.locked = FALSE])
    ELSE Done([w3 EXCEPT !.ids[ix] = <<>>, !.reg.locked = FALSE])

\* ix is the service whose ServiceAgentIdsIndex account is handed in: its
\* address is not derived from the service terminated
terminate(w, user, a, service_owner, service_id, ix) ==
    IF w.svc[a].state = "NonExistent" \/ w.ids[ix] = <<>>
    THEN Fail("AccountNotInitialized", w)
    ELSE IF w.svc[a].service_owner # service_owner \/ user # w.reg.manager
    THEN Fail("ConstraintAddress", w)
    ELSE IF w.reg.locked THEN Fail("ReentrancyGuard", w)
    ELSE
    LET w1 == [w EXCEPT !.reg.locked = TRUE] IN
    IF user # w1.reg.manager THEN Fail("InvalidAccountOwner", w1)
    ELSE IF w1.svc[a].service_owner # service_owner THEN Fail("InvalidArgument", w1)
    ELSE IF service_id # w1.svc[a].service_id THEN Fail("RequireEqViolated", w1)
    ELSE IF ~(w1.svc[a].state # "PreRegistration" /\ w1.svc[a].state # "TerminatedBonded")
    THEN Fail("WrongServiceState", w1)
    ELSE
    LET w2 == [w1 EXCEPT !.svc[a].state =
                   terminated_state(w1.svc[a].num_agent_instances)]
        l == TerminateLoop(w2, a, w2.ids[ix], 1)
    IN
    IF l.err # "Ok" THEN l
    ELSE
    LET w3 == [l.w EXCEPT !.insts[a] = <<>>]
        refund == w3.svc[a].security_deposit
    IN
    IF refund > 0
    THEN LET w4 == [w3 EXCEPT !.svc[a].security_deposit = 0] IN
         IF ~(w4.bal[Wallet] >= refund) THEN Fail("InsufficientFunds", w4)
         ELSE Done([w4 EXCEPT !.bal[Wallet] = @ - refund,
                              !.bal[service_owner] = @ + refund,
                              !.ids[ix] = <<>>,
                              !.reg.locked = FALSE])
    ELSE Done([w3 EXCEPT !.ids[ix] = <<>>, !.reg.locked = FALSE])

TerminateCalls(D, id) ==
    {[user |-> c.user, service_owner |-> c.owner, service_id |-> n, ix |-> ix] :
         c \in CallShapes, n \in {id, 0}, ix \in D.accts}

terminate_call(w, a, c) ==
    terminate(w, c.user, a, c.service_owner, c.service_id, c.ix)

Terminate(D) ==
    \E a \in D.accts :
        /\ service[a].state \notin {"NonExistent", "PreRegistration", "TerminatedBonded"}
        /\ \E c \in TerminateCalls(D, service[a].service_id) :
               Apply("terminate", a, terminate_call(World, a, c))

(***************************************************************************)
(* unbond                                                                  *)
(***************************************************************************)
\* every entry of the index is compared with the first of the remaining
\* accounts: the iterator over them is created anew in each round
RECURSIVE UnbondLoop(_, _, _, _)
UnbondLoop(w, entries, first, i) ==
    IF i > Len(entries) THEN Done(w)
    ELSE IF first = <<>> THEN Fail("NotEnoughAccountKeys", w)
    ELSE IF entries[i] # first THEN Fail("InvalidPda", w)
    ELSE UnbondLoop([w EXCEPT !.oai = @ \ {first}], entries, first, i + 1)

\* ix = <<service, operator>> names the OperatorAgentInstanceIndex account handed
\* in (its address is not derived from the service and operator unbonded);
\* first is the first of the remaining accounts
unbond(w, user, a, service_id, operator, ix, first) ==
    IF w.svc[a].state = "NonExistent" \/ ~w.bond[a][operator].init
    THEN Fail("AccountNotInitialized", w)
    ELSE IF user # w.reg.manager THEN Fail("ConstraintAddress", w)
    ELSE IF w.reg.locked THEN Fail("ReentrancyGuard", w)
    ELSE
    LET w1 == [w EXCEPT !.reg.locked = TRUE] IN
    IF service_id # w1.svc[a].service_id THEN Fail("RequireEqViolated", w1)
    ELSE IF user # w1.reg.manager THEN Fail("InvalidAccountOwner", w1)
    ELSE IF operator = ZeroKey THEN Fail("InvalidArgument", w1)
    ELSE IF ~(w1.svc[a].state = "TerminatedBonded") THEN Fail("WrongServiceState", w1)
    ELSE
    LET entries == w1.oidx[ix[1]][ix[2]]
        num_instances == Len(entries)
    IN
    IF ~(num_instances > 0) THEN Fail("OperatorHasNoInstances", w1)
    ELSE
    LET n == SaturatingSub(w1.svc[a].num_agent_instances, num_instances)
        w2 == [w1 EXCEPT !.svc[a].num_agent_instances = n,
                         !.svc[a].state = IF n = 0 THEN "PreRegistration" ELSE @]
        refund == w2.bond[a][operator].bond
    IN
    IF refund > 0 /\ ~(w2.bal[Wallet] >= refund) THEN Fail("InsufficientFunds", w2)
    ELSE
    LET w3 == [w2 EXCEPT !.bal[operator] = @ + refund,
                         !.bal[Wallet] = @ - refund,
                         !.bond[a][operator] = EmptyBond]
        l == UnbondLoop(w3, entries, first, 1)
    IN
    IF l.err # "Ok" THEN l
    ELSE Done([l.w EXCEPT !.oidx[ix[1]][ix[2]] = <<>>, !.reg.locked = FALSE])

\* the unbondings: by the manager with every index account and first remaining
\* account, and one with a wrong caller, operator or id
UnbondCalls(D, id) ==
    {[user |-> Manager, service_id |-> id, operator |-> o, ix |-> ix, first |-> f] :
         o \in D.operators, ix \in D.accts \X D.operators,
         f \in {<<>>} \cup (D.instances \X D.operators)}
    \cup {[user |-> u, service_id |-> n, operator |-> o, ix |-> <<a, o>>, first |-> <<>>] :
              u \in {Manager, Admin}, n \in {id, 0}, o \in D.operators, a \in D.accts}

unbond_call(w, a, c) ==
    unbond(w, c.user, a, c.service_id, c.operator, c.ix, c.first)

Unbond(D) ==
    \E a \in D.accts :
        /\ service[a].state = "TerminatedBonded"
        /\ \E c \in UnbondCalls(D, service[a].service_id) :
               Apply("unbond", a, unbond_call(World, a, c))

(***************************************************************************)
(* Specifications.                                                         *)
(***************************************************************************)
NextOver(D) ==
    \/ Create(D)
    \/ Update(D)
    \/ RegisterAgentIds(D)
    \/ ActivateRegistration(D)
    \/ RegisterAgents(D)
    \/ ChangeMultisigPermission(D)
    \/ Deploy(D)
    \/ Slash(D)
    \/ Drain
    \/ Terminate(D)
    \/ Unbond(D)

\* one service with one role and one operator through its whole life
Dom1 == [accts |-> {1}, batches |-> Batches({1}, {1}), thresholds |-> Thresholds,
         operators |-> {"op1"}, instances |-> Instances, param_accounts |-> {},
         impls |-> {"ms1"}, permissions |-> {TRUE},
         lists |-> {<<>>, <<"x1", "x2">>}, amounts |-> 0..MaxParam]

Next == NextOver(Dom1)

Spec == Init /\ [][Next]_vars

\* one service with one role and two operators through its whole life
DomOps == [Dom1 EXCEPT !.operators = Operators]

NextOps == NextOver(DomOps)

SpecOps == Init /\ [][NextOps]_vars

\* the configuration and registration of one service with two roles of
\* different bonds; a registration may hand in the parameter account of the
\* other role
DomRoles == [Dom1 EXCEPT !.batches = Batches(Roles, {1, 2}),
                         !.param_accounts = {1} \X Roles]

NextRoles ==
    \/ Create(DomRoles)
    \/ Update(DomRoles)
    \/ RegisterAgentIds(DomRoles)
    \/ ActivateRegistration(DomRoles)
    \/ RegisterAgents(DomRoles)

SpecRoles == Init /\ [][NextRoles]_vars

\* one service with one role and one operator through its whole life, with
\* three multisig implementations allowed and disallowed
DomPerm == [Dom1 EXCEPT !.impls = {"ms1", "ms2", "ms3"}, !.permissions = BOOLEAN]

NextPerm == NextOver(DomPerm)

SpecPerm == Init /\ [][NextPerm]_vars

\* one service with one role, one operator and bonds of 1 or 2 through its
\* whole life
DomFunds == [Dom1 EXCEPT !.batches = Batches({1}, {1, 2})]

NextFunds == NextOver(DomFunds)

SpecFunds == Init /\ [][NextFunds]_vars

\* the creation, registration and termination of two services, each with one
\* role of one slot, by two operators that register the same instance
DomTwo == [Dom1 EXCEPT !.accts = Accts, !.thresholds = {1},
                       !.batches = {[ids |-> <<1>>, params |-> <<One>>]},
                       !.operators = Operators, !.instances = {"x1"},
                       !.lists = {<<"x1">>}, !.amounts = {1}]

NextTwo ==
    \/ Create(DomTwo)
    \/ RegisterAgentIds(DomTwo)
    \/ ActivateRegistration(DomTwo)
    \/ RegisterAgents(DomTwo)
    \/ Terminate(DomTwo)

SpecTwo == Init /\ [][NextTwo]_vars

\* the configuration and registration of one service with two roles of the
\* same bond by two operators
DomRolesOps == [DomRoles EXCEPT !.batches = Batches(Roles, {1}),
                                !.thresholds = {NoThreshold, 1, 2},
                                !.operators = Operators]

NextRolesOps ==
    \/ Create(DomRolesOps)
    \/ Update(DomRolesOps)
    \/ RegisterAgentIds(DomRolesOps)
    \/ ActivateRegistration(DomRolesOps)
    \/ RegisterAgents(DomRolesOps)

SpecRolesOps == Init /\ [][NextRolesOps]_vars

\* the configuration and registration of one service with one role by two
\* operators, where the key of the second operator is also offered as an
\* instance
DomSelf == [DomOps EXCEPT !.instances = {"x1", "op2"}]

NextSelf ==
    \/ Create(DomSelf)
    \/ Update(DomSelf)
    \/ RegisterAgentIds(DomSelf)
    \/ ActivateRegistration(DomSelf)
    \/ RegisterAgents(DomSelf)

SpecSelf == Init /\ [][NextSelf]_vars

\* the registration, deployment and slashing of two services, each with one
\* role of one slot, by one operator that registers a different instance in
\* each
DomSlash == [Dom1 EXCEPT !.accts = Accts, !.thresholds = {1},
                         !.batches = {[ids |-> <<1>>, params |-> <<One>>]},
                         !.lists = {<<"x1">>}, !.amounts = {1}]

NextSlash ==
    \/ Create(DomSlash)
    \/ RegisterAgentIds(DomSlash)
    \/ ActivateRegistration(DomSlash)
    \/ RegisterAgents(DomSlash)
    \/ ChangeMultisigPermission(DomSlash)
    \/ Deploy(DomSlash)
    \/ Slash(DomSlash)

SpecSlash == Init /\ [][NextSlash]_vars

\* the configuration and registration of one service with one role whose slot
\* capacity is 1, 2, 256, 257 or 300
WideSlots == {1, 2, U8, U8 + 1, U8 + 44}
DomWide == [Dom1 EXCEPT !.batches = {[ids |-> <<1>>, params |-> <<[slots |-> k, bond |-> 1]>>] :
                                         k \in WideSlots},
                        !.thresholds = {1, 2, ThresholdLow(U8 + 1),
                                        ThresholdLow(U8 + 44)}]

NextWide ==
    \/ Create(DomWide)
    \/ Update(DomWide)
    \/ RegisterAgentIds(DomWide)
    \/ ActivateRegistration(DomWide)
    \/ RegisterAgents(DomWide)

SpecWide == Init /\ [][NextWide]_vars

(***************************************************************************)
(* The claims.  A claim about the outcome of a call is stated over every   *)
(* reachable state and every call of the specification's inputs from it.   *)
(***************************************************************************)
\* the outcomes [err, w] of the calls of each instruction on the accounts w
CreateOutcomes(D, w) ==
    UNION {{create_call(w, a, c) : c \in ConfigCalls(D, a)} : a \in D.accts}
UpdateOutcomes(D, w) ==
    UNION {{update_call(w, a, c) : c \in ConfigCalls(D, a)} : a \in D.accts}
RoleOutcomes(D, w) ==
    UNION {{role_call(w, a, c) : c \in RoleCalls(D)} : a \in D.accts}
ActivateOutcomes(D, w) ==
    UNION {{activate_call(w, a, c) : c \in ActivateCalls(w.svc[a].service_id)} :
              a \in D.accts}
RegisterOutcomes(D, w) ==
    UNION {{register_call(w, a, c) : c \in RegisterCalls(D, a)} : a \in D.accts}
PermissionOutcomes(D, w) == {permission_call(w, c) : c \in PermissionCalls(D)}
DeployOutcomes(D, w) ==
    UNION {{deploy_call(w, a, c) : c \in DeployCalls(D, w.svc[a].service_id)} :
              a \in D.accts}
SlashOutcomes(D, w) ==
    UNION {{slash_call(w, a, c) : c \in SlashCalls(D, w.svc[a].service_id)} :
              a \in D.accts}
DrainOutcomes(w) == {drain(w, d) : d \in DrainCalls}
TerminateOutcomes(D, w) ==
    UNION {{terminate_call(w, a, c) : c \in TerminateCalls(D, w.svc[a].service_id)} :
              a \in D.accts}
UnbondOutcomes(D, w) ==
    UNION {{unbond_call(w, a, c) : c \in UnbondCalls(D, w.svc[a].service_id)} :
              a \in D.accts}

\* the outcomes of the instructions that take the registry lock
GuardedOutcomes(D, w) ==
    CreateOutcomes(D, w) \cup DeployOutcomes(D, w) \cup DrainOutcomes(w)
    \cup TerminateOutcomes(D, w) \cup UnbondOutcomes(D, w)

AllOutcomes(D, w) ==
    GuardedOutcomes(D, w) \cup UpdateOutcomes(D, w) \cup RoleOutcomes(D, w)
    \cup ActivateOutcomes(D, w) \cup RegisterOutcomes(D, w)
    \cup PermissionOutcomes(D, w) \cup SlashOutcomes(D, w)

\* t lies in the quorum interval of max: ceil((2*max+1)/3) <= t <= max
InQuorumInterval(t, max) == 3 * t >= 2 * max + 1 /\ t <= max

\* C1: after any successful role-table update the service's threshold t and
\* capacity max satisfy ceil((2*max+1)/3) <= t <= max, where t is the threshold
\* supplied with the call or, when none is supplied, the one retained; so a call
\* whose supplied or retained threshold is outside the interval fails.
C1_ThresholdInInterval ==
    \A a \in DomRoles.accts : \A c \in RoleCalls(DomRoles) :
        LET res == role_call(World, a, c)
            s == res.w.svc[a]
        IN  res.err = "Ok" =>
                /\ s.threshold = IF c.threshold # NoThreshold THEN c.threshold
                                 ELSE service[a].threshold
                /\ InQuorumInterval(s.threshold, s.max_num_agent_instances)

\* a role-table update went through that left a capacity of 4 with threshold 3
C1_Witness ==
    /\ last = [op |-> "register_agent_ids_to_service", acct |-> 1]
    /\ service[1].max_num_agent_instances = 4
    /\ service[1].threshold = 3

\* C2: in every reachable state every service has
\* num_agent_instances <= max_num_agent_instances.
C2_NumWithinMax ==
    \A a \in Accts : service[a].num_agent_instances <= service[a].max_num_agent_instances

\* the slot capacity the role table of service a records for role r
SlotCapacity(a, r) ==
    LET i == IndexOf(agent_ids_index[a], r) IN
    IF i = 0 THEN 0 ELSE agent_ids_index[a][i].slots

\* C3: in every reachable state, for every service and role, the slot counter
\* is at most the slot capacity the role table records for the role.
C3_SlotCounterWithinCapacity ==
    \A a \in Accts : \A r \in Roles : slot_counter[a][r] <= SlotCapacity(a, r)

RECURSIVE SumOfBonds(_, _)
SumOfBonds(bonds, ops) ==
    IF ops = {} THEN 0
    ELSE LET o == CHOOSE x \in ops : TRUE
         IN  bonds[o].bond + SumOfBonds(bonds, ops \ {o})

\* C4: for every service, in every reachable state, the sum over the operators
\* of their recorded bonds is at most what the service's register_agents calls
\* moved into the wallet, less what its unbond calls refunded, less what its
\* slash calls deducted.
C4_BondsCovered ==
    \A a \in Accts :
        SumOfBonds(operator_bond[a], Operators)
            <= ledger[a].bonded - ledger[a].refunded - ledger[a].slashed

\* two operators bonded in service 1, one was slashed and the other refunded
C4_Witness ==
    /\ ledger[1].bonded = 2
    /\ ledger[1].slashed = 1
    /\ ledger[1].refunded = 1

Held == [World EXCEPT !.reg.locked = TRUE]

\* the errors of the Accounts struct, raised before the handler's body runs
AccountErrors == {"AccountInUse", "AccountNotInitialized", "ConstraintAddress"}

\* C6: while the registry lock is held, every nested create, deploy, drain,
\* terminate or unbond fails and changes no state or balance, and it fails with
\* the reentrancy error as soon as its handler is entered (its accounts pass
\* the Accounts struct).
C6_LockRejectsNested ==
    \A res \in GuardedOutcomes(Dom1, Held) :
        /\ res.err # "Ok"
        /\ res.err \notin AccountErrors => res.err = "ReentrancyGuard"
        /\ Persist(Held, res) = Held

\* a terminated service with a bonded operator: nested unbond, deploy and drain
\* calls reach their handlers and meet the held lock
C6_Witness ==
    /\ service[1].state = "TerminatedBonded"
    /\ \E res \in UnbondOutcomes(Dom1, Held) : res.err = "ReentrancyGuard"
    /\ \E res \in DeployOutcomes(Dom1, Held) : res.err = "ReentrancyGuard"
    /\ \E res \in DrainOutcomes(Held) : res.err = "ReentrancyGuard"

\* C7: activate_registration succeeds only when the caller is the manager and
\* the service is in PreRegistration; on success the caller's balance is down
\* by exactly security_deposit, the wallet's is up by exactly security_deposit
\* and the state is ActiveRegistration; with a caller balance below
\* security_deposit the call fails and the state stays as it was.
C7_ActivateRegistration ==
    \A a \in Dom1.accts : \A c \in ActivateCalls(service[a].service_id) :
        LET res == activate_call(World, a, c)
            deposit == service[a].security_deposit
        IN  /\ res.err = "Ok" =>
                   /\ c.user = registry.manager
                   /\ service[a].state = "PreRegistration"
                   /\ res.w.bal[c.user] = lamports[c.user] - deposit
                   /\ res.w.bal[Wallet] = lamports[Wallet] + deposit
                   /\ res.w.svc[a].state = "ActiveRegistration"
            /\ lamports[c.user] < deposit =>
                   /\ res.err # "Ok"
                   /\ Persist(World, res).svc[a].state = service[a].state

\* an activation went through that moved a deposit of 1 into the wallet
C7_Witness ==
    /\ last = [op |-> "activate_registration", acct |-> 1]
    /\ service[1].state = "ActiveRegistration"
    /\ service[1].security_deposit = 1
    /\ lamports[Wallet] = 1
    /\ lamports[Manager] = InitFunds - 1

RECURSIVE SumOfRoleBonds(_, _)
\* the sum, with multiplicity, of the bonds that service a stores for agent_ids
SumOfRoleBonds(a, agent_ids) ==
    IF agent_ids = <<>> THEN 0
    ELSE agent_param[a][Head(agent_ids)].bond + SumOfRoleBonds(a, Tail(agent_ids))

\* C8: a successful register_agents call for role ids r_1..r_k moves exactly
\* bond(r_1) + ... + bond(r_k) from the caller into the wallet and raises the
\* operator's bond record of the service by the same amount.
C8_ChargesSumOfBonds ==
    \A a \in DomRoles.accts : \A c \in RegisterCalls(DomRoles, a) :
        LET res == register_call(World, a, c)
            total == SumOfRoleBonds(a, c.agent_ids)
        IN  res.err = "Ok" =>
                /\ res.w.bal[c.user] = lamports[c.user] - total
                /\ res.w.bal[Wallet] = lamports[Wallet] + total
                /\ res.w.bond[a][c.operator].bond = operator_bond[a][c.operator].bond + total

\* C9: register_agents succeeds only when the caller is the manager, the
\* service is in ActiveRegistration and the two arrays have equal length; every
\* registered pair raises num_agent_instances by one, and after the call the
\* state is FinishedRegistration if and only if num_agent_instances equals
\* max_num_agent_instances, and ActiveRegistration otherwise.
C9_RegisterAgents ==
    \A a \in Dom1.accts : \A c \in RegisterCalls(Dom1, a) :
        LET res == register_call(World, a, c)
            s == res.w.svc[a]
        IN  res.err = "Ok" =>
                /\ c.user = registry.manager
                /\ service[a].state = "ActiveRegistration"
                /\ Len(c.agent_instances) = Len(c.agent_ids)
                /\ s.num_agent_instances = service[a].num_agent_instances + Len(c.agent_ids)
                /\ s.state = "FinishedRegistration"
                       <=> s.num_agent_instances = s.max_num_agent_instances
                /\ s.state \in {"FinishedRegistration", "ActiveRegistration"}

\* a registration of one instance went through that left a slot free
C9_Witness ==
    /\ last = [op |-> "register_agents", acct |-> 1]
    /\ service[1].state = "ActiveRegistration"
    /\ service[1].num_agent_instances = 1
    /\ service[1].max_num_agent_instances = 2

\* C10: terminate fails when the service is in PreRegistration or
\* TerminatedBonded, with the wrong-state error once the checks that precede
\* the state check have passed; when it succeeds the service was in
\* ActiveRegistration, FinishedRegistration or Deployed and its new state is
\* TerminatedBonded if num_agent_instances > 0 and PreRegistration otherwise.
C10_Terminate ==
    \A a \in Dom1.accts : \A c \in TerminateCalls(Dom1, service[a].service_id) :
        LET res == terminate_call(World, a, c) IN
        /\ service[a].state \in {"PreRegistration", "TerminatedBonded"} =>
               /\ res.err # "Ok"
               /\ (/\ agent_ids_index[c.ix] # <<>>
                   /\ c.user = registry.manager
                   /\ c.service_owner = service[a].service_owner
                   /\ c.service_id = service[a].service_id)
                      => res.err = "WrongServiceState"
        /\ res.err = "Ok" =>
               /\ service[a].state \in {"ActiveRegistration", "FinishedRegistration",
                                        "Deployed"}
               /\ res.w.svc[a].state =
                      IF service[a].num_agent_instances > 0
                      THEN "TerminatedBonded" ELSE "PreRegistration"

\* a terminate went through and left the service TerminatedBonded, where a
\* further terminate with the role table set again meets the wrong-state error
C10_Witness ==
    /\ last = [op |-> "terminate", acct |-> 1]
    /\ service[1].state = "TerminatedBonded"
    /\ service[1].num_agent_instances > 0

\* C11: a successful terminate moves exactly the service's security_deposit
\* from the wallet to the service owner and leaves security_deposit at 0; and
\* no service has seen more successful terminate calls than successful
\* activate_registration calls, so the deposit of one activation is refunded at
\* most once.
C11_DepositRefundedOnce ==
    /\ \A a \in Dom1.accts : \A c \in TerminateCalls(Dom1, service[a].service_id) :
           LET res == terminate_call(World, a, c)
               deposit == service[a].security_deposit
           IN  res.err = "Ok" =>
                   /\ res.w.bal[Wallet] = lamports[Wallet] - deposit
                   /\ res.w.bal[service[a].service_owner] =
                          lamports[service[a].service_owner] + deposit
                   /\ res.w.svc[a].security_deposit = 0
                   /\ ledger[a].deposits = 1
    /\ \A a \in Accts : ledger[a].deposits \in {0, 1}

\* a terminate went through that refunded a deposit of 1 to the service owner,
\* and the service was activated a second time afterwards
C11_Witness ==
    /\ ledger[1].deposits = 1
    /\ service[1].state = "ActiveRegistration"
    /\ lamports[SvcOwner] >= 1

\* C12: unbond succeeds only when the service is in TerminatedBonded and the
\* operator's instance index for that service is non-empty; on success
\* num_agent_instances is down by exactly the number of instances that operator
\* registered in the service, and the state is PreRegistration if and only if
\* num_agent_instances has reached 0, and TerminatedBonded otherwise.
C12_Unbond ==
    \A a \in DomOps.accts : \A c \in UnbondCalls(DomOps, service[a].service_id) :
        LET res == unbond_call(World, a, c)
            s == res.w.svc[a]
            own == operator_agent_instance_index[a][c.operator]
        IN  res.err = "Ok" =>
                /\ service[a].state = "TerminatedBonded"
                /\ own # <<>>
                /\ s.num_agent_instances = service[a].num_agent_instances - Len(own)
                /\ s.state = "PreRegistration" <=> s.num_agent_instances = 0
                /\ s.state \in {"PreRegistration", "TerminatedBonded"}

\* C13: a successful unbond moves exactly the operator's bond for the service
\* from the wallet to the operator, leaves the bond record at 0 and the
\* operator's instance index for the service empty; and every further unbond
\* for the same operator and service made right after it fails and moves
\* nothing.
C13_UnbondRefundsOnce ==
    \A a \in DomOps.accts : \A c \in UnbondCalls(DomOps, service[a].service_id) :
        LET res == unbond_call(World, a, c)
            bond == operator_bond[a][c.operator].bond
        IN  res.err = "Ok" =>
                /\ res.w.bal[Wallet] = lamports[Wallet] - bond
                /\ res.w.bal[c.operator] = lamports[c.operator] + bond
                /\ res.w.bond[a][c.operator].bond = 0
                /\ res.w.oidx[a][c.operator] = <<>>
                /\ \A d \in UnbondCalls(DomOps, service[a].service_id) :
                       d.operator = c.operator =>
                           LET again == unbond_call(res.w, a, d) IN
                           /\ again.err # "Ok"
                           /\ Persist(res.w, again).bal = res.w.bal

\* the lists of one or two (instance, amount) pairs, each with the
\* instance-operator record handed in for it
SlashRequests(D) ==
    {<<p>> : p \in SlashItems(D)} \cup {<<p, q>> : p \in SlashItems(D), q \in SlashItems(D)}

\* what the pairs do to the bond records one after the other: a pair of amount
\* 0, or one that finds the operator's bond at 0, rejects; any other takes the
\* smaller of the bond and the amount
RECURSIVE SlashEffect(_, _)
SlashEffect(bonds, items) ==
    IF items = <<>> THEN [ok |-> TRUE, bonds |-> bonds, taken |-> 0]
    ELSE
    LET o == Head(items).operator
        amount == Head(items).amount
        b == bonds[o].bond
        cut == IF amount < b THEN amount ELSE b
    IN  IF amount = 0 \/ b = 0 THEN [ok |-> FALSE, bonds |-> bonds, taken |-> 0]
        ELSE LET rest == SlashEffect([bonds EXCEPT ![o].bond = b - cut], Tail(items))
             IN  [rest EXCEPT !.taken = @ + cut]

\* C14: for each (instance, amount) pair of a slash, with b the owning
\* operator's bond before the pair: amount = 0 or b = 0 rejects the call;
\* otherwise the bond becomes b - min(b, amount) and slashed_funds grows by
\* min(b, amount).  A successful slash changes no balance, and the sum of the
\* service's bonds and slashed_funds is the same before and after it.
C14_Slash ==
    \A a \in DomOps.accts : \A rq \in SlashRequests(DomOps) :
        LET res == slash(World, service[a].multisig, a, service[a].service_id,
                         InstsOf(rq), AmountsOf(rq), OperatorsOf(rq))
            e == SlashEffect(operator_bond[a], rq)
        IN  /\ ~e.ok => res.err # "Ok"
            /\ res.err = "Ok" =>
                   /\ \A i \in 1..Len(rq) :
                          <<rq[i].inst, rq[i].operator>> \in operator_agent_instance
                   /\ \A o \in Operators : res.w.bond[a][o].bond = e.bonds[o].bond
                   /\ res.w.reg.slashed_funds = registry.slashed_funds + e.taken
                   /\ res.w.bal = lamports
                   /\ SumOfBonds(res.w.bond[a], Operators) + res.w.reg.slashed_funds
                          = SumOfBonds(operator_bond[a], Operators) + registry.slashed_funds

\* a slash went through, and the service holds a bond of 1 that a slash of
\* amount 2 brings to 0 while slashed_funds grows by 1
C14_Witness ==
    /\ last = [op |-> "slash", acct |-> 1]
    /\ \E p \in SlashItems(DomOps) :
           LET res == slash(World, service[1].multisig, 1, service[1].service_id,
                            <<p.inst>>, <<p.amount>>, <<p.operator>>)
           IN  /\ p.amount = 2
               /\ operator_bond[1][p.operator].bond = 1
               /\ res.err = "Ok"
               /\ res.w.bond[1][p.operator].bond = 0
               /\ res.w.reg.slashed_funds = registry.slashed_funds + 1

\* the slash calls of the specification's inputs together with those of two
\* pairs, by every caller
SlashCallsUpToTwo(D, id) ==
    SlashCalls(D, id)
    \cup {[user |-> u, service_id |-> id, agent_instances |-> InstsOf(rq),
           amounts |-> AmountsOf(rq), records |-> OperatorsOf(rq)] :
              u \in D.lists \cup {<<"x1">>}, rq \in SlashRequests(D)}

\* C15: slash is rejected, and leaves every bond record and slashed_funds as
\* they were, unless the service is in Deployed, the caller is the multisig
\* recorded on the service and the instance and amount arrays have the same
\* length.
C15_SlashRejected ==
    \A a \in Dom1.accts : \A c \in SlashCallsUpToTwo(Dom1, service[a].service_id) :
        LET res == slash_call(World, a, c)
            after == Persist(World, res)
        IN  /\ res.err = "Ok" =>
                   /\ service[a].state = "Deployed"
                   /\ c.user = service[a].multisig
                   /\ Len(c.agent_instances) = Len(c.amounts)
            /\ res.err # "Ok" =>
                   /\ after.bond = operator_bond
                   /\ after.reg.slashed_funds = registry.slashed_funds

\* a deployed service with a bonded operator, where a slash by another caller,
\* one with arrays of different lengths, and one whose second pair fails after
\* the first was deducted are all rejected
C15_Witness ==
    /\ service[1].state = "Deployed"
    /\ \E c \in SlashCallsUpToTwo(Dom1, service[1].service_id) :
           /\ c.user # service[1].multisig
           /\ Len(c.agent_instances) = 1
           /\ slash_call(World, 1, c).err = "ConstraintAddress"
    /\ \E c \in SlashCallsUpToTwo(Dom1, service[1].service_id) :
           /\ c.user = service[1].multisig
           /\ slash_call(World, 1, c).err = "WrongArrayLength"
    /\ \E c \in SlashCallsUpToTwo(Dom1, service[1].service_id) :
           LET res == slash_call(World, 1, c) IN
           /\ res.err # "Ok"
           /\ res.w.bond # operator_bond

RECURSIVE SumOfSlashed(_)
\* what the slash calls of the services in accts added to slashed_funds
SumOfSlashed(accts) ==
    IF accts = {} THEN 0
    ELSE LET a == CHOOSE x \in accts : TRUE
         IN  ledger[a].slashed + SumOfSlashed(accts \ {a})

\* C16: drain succeeds only for the registry's drainer; for the drainer, with
\* slashed_funds = s > 0 it fails when the wallet holds less than s and
\* otherwise moves exactly s from the wallet to the drainer and sets
\* slashed_funds to 0, and with slashed_funds = 0 it succeeds and moves nothing.
\* In every reachable state the total the drain calls moved out of the wallet
\* is the total the slash calls added to slashed_funds less slashed_funds.
C16_Drain ==
    /\ \A d \in DrainCalls :
           LET res == drain(World, d)
               s == registry.slashed_funds
           IN  /\ res.err = "Ok" => d = registry.drainer
               /\ (d = registry.drainer /\ s > 0 /\ lamports[Wallet] < s) => res.err # "Ok"
               /\ (d = registry.drainer /\ s > 0 /\ lamports[Wallet] >= s) =>
                      /\ res.err = "Ok"
                      /\ res.w.bal = [lamports EXCEPT ![Wallet] = @ - s, ![d] = @ + s]
                      /\ res.w.reg.slashed_funds = 0
               /\ (d = registry.drainer /\ s = 0) =>
                      /\ res.err = "Ok"
                      /\ res.w.bal = lamports
                      /\ res.w.reg.slashed_funds = 0
    /\ drained = SumOfSlashed(Accts) - registry.slashed_funds

\* slashed funds were drained, more were slashed since, and the wallet holds
\* less than slashed_funds: the drainer's call fails
C16_Witness ==
    /\ drained > 0
    /\ lamports[Drainer] = drained
    /\ registry.slashed_funds > lamports[Wallet]
    /\ drain(World, Drainer).err = "InsufficientFunds"

\* the sequences over S of length at most 3
UpTo3(S) == {<<>>} \cup {<<x>> : x \in S} \cup {<<x, y>> : x \in S, y \in S}
            \cup {<<x, y, z>> : x \in S, y \in S, z \in S}

\* a batch is well formed: non-empty, as many ids as parameter pairs, ids
\* strictly increasing, slots and bond of every pair both zero or both nonzero
WellFormed(ids, params) ==
    /\ Len(ids) > 0
    /\ Len(ids) = Len(params)
    /\ \A i \in 1..Len(ids) : \A j \in 1..Len(ids) : i < j => ids[i] < ids[j]
    /\ \A i \in 1..Len(params) : (params[i].slots = 0) <=> (params[i].bond = 0)

\* the errors of initial_checks
BatchErrors == {"WrongArrayLength", "WrongAgentId", "ZeroValue"}

\* C17: the input validation of a role-table update accepts a batch (role_ids,
\* params) exactly when it is well formed (so [1,2,2], [1,1] and [2,1] are
\* rejected); and a role-table update whose batch is not well formed fails
\* with nothing written.
C17_InitialChecks ==
    /\ \A ids \in UpTo3(Roles) : \A params \in UpTo3(GoodParams({1}) \cup BadParams) :
           initial_checks(ids, params) = "Ok" <=> WellFormed(ids, params)
    /\ \A a \in DomRoles.accts : \A c \in RoleCalls(DomRoles) :
           LET res == role_call(World, a, c) IN
           ~WellFormed(c.batch.ids, c.batch.params) =>
               /\ res.err \in BatchErrors \cup AccountErrors
               /\ res.w = World

\* a service whose role table holds two roles, where the batches [2,1] and
\* [1,1] and a pair with a bond but no slots are rejected
C17_Witness ==
    /\ last = [op |-> "register_agent_ids_to_service", acct |-> 1]
    /\ Len(agent_ids_index[1]) = 2
    /\ \E c \in RoleCalls(DomRoles) :
           c.batch.ids = <<2, 1>> /\ role_call(World, 1, c).err = "WrongAgentId"
    /\ \E c \in RoleCalls(DomRoles) :
           c.batch.ids = <<1, 1>> /\ role_call(World, 1, c).err = "WrongAgentId"
    /\ \E c \in RoleCalls(DomRoles) :
           /\ c.batch.params = <<[slots |-> 0, bond |-> 1]>>
           /\ role_call(World, 1, c).err = "ZeroValue"

RECURSIVE SlotsUpTo(_, _)
\* the slot capacities of the first n entries of a role table, added up
SlotsUpTo(table, n) ==
    IF n = 0 THEN 0 ELSE SlotsUpTo(table, n - 1) + table[n].slots

\* the largest bond of a role table, 0 for the empty table
LargestBond(table) ==
    IF table = <<>> THEN 0
    ELSE CHOOSE b \in {table[i].bond : i \in 1..Len(table)} :
             \A i \in 1..Len(table) : table[i].bond <= b

\* slot capacities at the top of the 32-bit range
HugeSlots == {1, 2, U32_MAX - 2, U32_MAX - 1, U32_MAX}

\* C18: after every successful role-table update max_num_agent_instances is
\* the sum, saturating at the 32-bit maximum, of the slot capacities of the
\* roles then in the service's role table, and security_deposit is the largest
\* of their bonds (not the sum); the sum of two capacities that exceeds the
\* maximum is the maximum.
C18_Recomputed ==
    /\ \A a \in DomRoles.accts : \A c \in RoleCalls(DomRoles) :
           LET res == role_call(World, a, c)
               table == res.w.ids[a]
               total == SlotsUpTo(table, Len(table))
           IN  res.err = "Ok" =>
                   /\ res.w.svc[a].max_num_agent_instances =
                          IF total > U32_MAX THEN U32_MAX ELSE total
                   /\ res.w.svc[a].security_deposit = LargestBond(table)
                   /\ \A i \in 1..Len(table) : \A j \in 1..Len(table) :
                          table[i].agent_id = table[j].agent_id => i = j
    /\ \A x \in HugeSlots : \A y \in HugeSlots :
           SumSlots(<<[agent_id |-> 1, slots |-> x, bond |-> 1],
                      [agent_id |-> 2, slots |-> y, bond |-> 1]>>)
               = IF x >= U32_MAX - y THEN U32_MAX ELSE x + y

\* a role-table update went through that left roles 1 and 2 with two slots
\* each and bonds 1 and 2: the capacity is 4 and the deposit 2, not 3
C18_Witness ==
    /\ last = [op |-> "register_agent_ids_to_service", acct |-> 1]
    /\ Len(agent_ids_index[1]) = 2
    /\ {agent_ids_index[1][i].bond : i \in 1..2} = {1, 2}
    /\ service[1].max_num_agent_instances = 4
    /\ service[1].security_deposit = 2

\* the identifiers in a whitelist
Listed(wl) == {wl[i] : i \in 1..Len(wl)}

\* C19: change_multisig_permission succeeds only for the registry owner.  For
\* the owner and a non-zero identifier: allow = true on an identifier not in
\* the whitelist adds it when the whitelist is below the size cap and is
\* rejected when it is full; allow = true on an identifier already in it
\* leaves the whitelist as it is; allow = false removes the identifier if it is
\* there and otherwise changes nothing.  The whitelist never holds an
\* identifier twice and never more identifiers than the cap.
C19_Whitelist ==
    /\ \A c \in PermissionCalls(DomPerm) :
           LET res == permission_call(World, c)
               wl == authorized_multisigs
               after == Persist(World, res).wl
               m == c.multisig
           IN  /\ res.err = "Ok" => c.user = registry.owner
               /\ res.err # "Ok" => after = wl
               /\ (c.user = registry.owner /\ m # ZeroKey) =>
                      /\ (c.permission /\ m \notin Listed(wl) /\ Len(wl) < MAX_MULTISIGS) =>
                             /\ res.err = "Ok"
                             /\ Listed(after) = Listed(wl) \cup {m}
                             /\ Len(after) = Len(wl) + 1
                      /\ (c.permission /\ m \notin Listed(wl) /\ Len(wl) >= MAX_MULTISIGS) =>
                             res.err # "Ok"
                      /\ (c.permission /\ m \in Listed(wl)) => after = wl
                      /\ (~c.permission /\ m \in Listed(wl)) =>
                             /\ res.err = "Ok"
                             /\ Listed(after) = Listed(wl) \ {m}
                             /\ Len(after) = Len(wl) - 1
                      /\ (~c.permission /\ m \notin Listed(wl)) =>
                             /\ res.err = "Ok"
                             /\ after = wl
    /\ Len(authorized_multisigs) <= MAX_MULTISIGS
    /\ Cardinality(Listed(authorized_multisigs)) = Len(authorized_multisigs)

\* the whitelist is full: allowing a third identifier is rejected, and
\* disallowing a listed one succeeds
C19_Witness ==
    /\ last = [op |-> "change_multisig_permission", acct |-> 0]
    /\ Len(authorized_multisigs) = MAX_MULTISIGS
    /\ \E c \in PermissionCalls(DomPerm) :
           /\ c.permission
           /\ c.multisig \notin Listed(authorized_multisigs)
           /\ permission_call(World, c).err = "MaxMultiSigsReached"
    /\ \E c \in PermissionCalls(DomPerm) :
           /\ ~c.permission
           /\ c.multisig \in Listed(authorized_multisigs)
           /\ permission_call(World, c).err = "Ok"

Created == {a \in Accts : service[a].state # "NonExistent"}

\* C21: create succeeds only when the caller is the manager, the owner is
\* non-zero and the config hash is non-zero; with n - 1 services created so
\* far, a successful create assigns service_id = n, sets total_supply = n,
\* leaves num_agent_instances, max_num_agent_instances and security_deposit at
\* 0 and the state PreRegistration; a failed create leaves total_supply as it
\* was; the ids of the created services are exactly 1..total_supply, each
\* borne by one service.
C21_Create ==
    /\ \A a \in DomTwo.accts : \A c \in ConfigCalls(DomTwo, a) :
           LET res == create_call(World, a, c)
               n == Cardinality(Created) + 1
               s == res.w.svc[a]
           IN  /\ res.err = "Ok" =>
                      /\ c.user = registry.manager
                      /\ c.service_owner # ZeroKey
                      /\ c.config_hash # 0
                      /\ s.service_id = n
                      /\ res.w.reg.total_supply = n
                      /\ s.num_agent_instances = 0
                      /\ s.max_num_agent_instances = 0
                      /\ s.security_deposit = 0
                      /\ s.state = "PreRegistration"
                      /\ \A b \in Created : service[b].service_id < n
               /\ res.err # "Ok" =>
                      Persist(World, res).reg.total_supply = registry.total_supply
    /\ registry.total_supply = Cardinality(Created)
    /\ {service[a].service_id : a \in Created} = 1..registry.total_supply

\* a second create went through, on the account of hash 1, after the one on the
\* account of hash 2: the ids are 2 and 1
C21_Witness ==
    /\ last = [op |-> "create", acct |-> 1]
    /\ registry.total_supply = 2
    /\ service[1].service_id = 2
    /\ service[2].service_id = 1

\* C22: a deploy call succeeds only on a service in FinishedRegistration, so
\* that a service becomes Deployed only from there; a deploy call on a service
\* in PreRegistration, ActiveRegistration, Deployed or TerminatedBonded leaves
\* its state as it was.
C22_DeployOnlyFromFinished ==
    \A a \in Dom1.accts : \A c \in DeployCalls(Dom1, service[a].service_id) :
        LET res == deploy_call(World, a, c)
            after == Persist(World, res)
        IN  /\ res.err = "Ok" => service[a].state = "FinishedRegistration"
            /\ service[a].state \in {"PreRegistration", "ActiveRegistration",
                                     "Deployed", "TerminatedBonded"}
                   => after.svc[a].state = service[a].state

\* C23: in every reachable state every service in ActiveRegistration,
\* FinishedRegistration or Deployed has a threshold t and a capacity max with
\* ceil((2*max+1)/3) <= t <= max.
C23_ThresholdInQuorum ==
    \A a \in Accts :
        service[a].state \in {"ActiveRegistration", "FinishedRegistration", "Deployed"}
            => InQuorumInterval(service[a].threshold, service[a].max_num_agent_instances)

\* the roles under which instance x is registered in service a
RolesOf(a, x) == {r \in Roles : <<a, r, x>> \in service_agent_instance}

\* C24: in every reachable state an instance is registered in a service under
\* at most one role, and a register_agents call naming an instance that is
\* already registered in the service, under the same or another role and by
\* whichever operator, is rejected.
C24_OneRolePerInstance ==
    /\ \A a \in Accts : \A x \in Instances : Cardinality(RolesOf(a, x)) <= 1
    /\ \A a \in DomRolesOps.accts : \A c \in RegisterCalls(DomRolesOps, a) :
           (\E i \in 1..Len(c.agent_instances) : RolesOf(a, c.agent_instances[i]) # {})
               => register_call(World, a, c).err # "Ok"

\* the operators that hold a record of instance x
ClaimantsOf(x) == {o \in Operators : <<x, o>> \in operator_agent_instance}

\* C25: in every reachable state no instance is claimed by two operators, and
\* a register_agents call by an operator naming an instance that another
\* operator has registered is rejected.
C25_OneOperatorPerInstance ==
    /\ \A x \in Instances : Cardinality(ClaimantsOf(x)) <= 1
    /\ \A a \in DomTwo.accts : \A c \in RegisterCalls(DomTwo, a) :
           (\E i \in 1..Len(c.agent_instances) :
                ClaimantsOf(c.agent_instances[i]) \ {c.operator} # {})
               => register_call(World, a, c).err # "Ok"

\* the keys registered as instances of some service
RegisteredInstances == {t[3] : t \in service_agent_instance}

\* C26: a register_agents call is rejected when its operator is the zero key,
\* is among the instances the call names, or is registered as an instance
\* already; and in every reachable state no key is both an operator with a bond
\* record and a registered instance.
C26_OperatorIsNoInstance ==
    /\ \A a \in DomSelf.accts : \A c \in RegisterCalls(DomSelf, a) :
           (\/ c.operator = ZeroKey
            \/ \E i \in 1..Len(c.agent_instances) : c.agent_instances[i] = c.operator
            \/ c.operator \in RegisteredInstances)
               => register_call(World, a, c).err # "Ok"
    /\ \A a \in Accts : \A o \in Operators :
           operator_bond[a][o].init => o \notin RegisteredInstances

\* service a of the accounts w is wound up: its role table and its instance
\* index are empty, the slot counter of every role is cleared, no ownership
\* record of the service is left, and its instance count and deposit are 0
WoundUp(w, a) ==
    /\ w.ids[a] = <<>>
    /\ \A r \in Roles : w.slot[a][r] = 0
    /\ \A t \in w.sai : t[1] # a
    /\ w.insts[a] = <<>>
    /\ w.svc[a].num_agent_instances = 0
    /\ w.svc[a].security_deposit = 0

\* C27: whenever a terminate or an unbond returns a service to
\* PreRegistration, the service is wound up.
C27_CleanOnReturn ==
    \A a \in Dom1.accts :
        /\ \A c \in TerminateCalls(Dom1, service[a].service_id) :
               LET res == terminate_call(World, a, c) IN
               (res.err = "Ok" /\ res.w.svc[a].state = "PreRegistration")
                   => WoundUp(res.w, a)
        /\ \A c \in UnbondCalls(Dom1, service[a].service_id) :
               LET res == unbond_call(World, a, c) IN
               (res.err = "Ok" /\ res.w.svc[a].state = "PreRegistration")
                   => WoundUp(res.w, a)

\* the role ids that a batch deletes
DeletedBy(batch) ==
    {batch.ids[i] : i \in {j \in 1..Min(Len(batch.ids), Len(batch.params)) :
                               batch.params[j] = [slots |-> 0, bond |-> 0]}}

\* the registrations of service a that name role r first, with the parameter
\* account of service a for each role they name
RegistrationsFor(D, a, r) ==
    {c \in RegisterCalls(D, a) :
         /\ c.user = Manager
         /\ Len(c.agent_ids) > 0
         /\ c.agent_ids[1] = r
         /\ \A i \in 1..Len(c.agent_ids) :
                c.param_accounts[i] = [acct |-> a, agent_id |-> c.agent_ids[i]]}

\* C28: after a successful role-table update, every role that the batch deletes
\* (slots 0, bond 0) is out of the role table and its slot counter is 0, the
\* capacity and the deposit are those of the roles left, and a register_agents
\* call for the role is rejected, with the agent-not-in-service error when the
\* service is in ActiveRegistration.
C28_Deletion ==
    \A a \in DomRoles.accts : \A c \in RoleCalls(DomRoles) :
        LET res == role_call(World, a, c)
            table == res.w.ids[a]
        IN  res.err = "Ok" =>
                \A r \in DeletedBy(c.batch) :
                    /\ IndexOf(table, r) = 0
                    /\ res.w.slot[a][r] = 0
                    /\ res.w.svc[a].max_num_agent_instances = SlotsUpTo(table, Len(table))
                    /\ res.w.svc[a].security_deposit = LargestBond(table)
                    /\ \A d \in RegistrationsFor(DomRoles, a, r) :
                           LET again == register_call(res.w, a, d) IN
                           /\ again.err # "Ok"
                           /\ res.w.svc[a].state = "ActiveRegistration"
                                  => again.err = "AgentNotInService"

\* the role ids of a role table
IdsOf(table) == {table[i].agent_id : i \in 1..Len(table)}

\* the role ids a batch sets (slots and bond nonzero)
UpsertedBy(batch) ==
    {batch.ids[i] : i \in {j \in 1..Min(Len(batch.ids), Len(batch.params)) :
                               batch.params[j].slots # 0}}

\* the role ids of the table once the batch is applied to it
IdsAfter(table, batch) == (IdsOf(table) \ DeletedBy(batch)) \cup UpsertedBy(batch)

\* C29: in every reachable state a role table has at most
\* MAX_AGENT_IDS_PER_SERVICE entries; a role-table update fails with the
\* table-size error only when the table with the batch applied would have more
\* entries than that, and a well-formed batch by the right caller that would
\* leave it with more fails with that error.
C29_TableSize ==
    /\ \A a \in Accts : Len(agent_ids_index[a]) <= MAX_AGENT_IDS_PER_SERVICE
    /\ \A a \in DomRoles.accts : \A c \in RoleCalls(DomRoles) :
           LET res == role_call(World, a, c)
               size == Cardinality(IdsAfter(agent_ids_index[a], c.batch))
           IN  /\ res.err = "MaxAgentIdPerServiceReached"
                      => size > MAX_AGENT_IDS_PER_SERVICE
               /\ (/\ size > MAX_AGENT_IDS_PER_SERVICE
                   /\ service[a].state # "NonExistent"
                   /\ c.user = registry.manager
                   /\ c.service_owner = service[a].service_owner
                   /\ WellFormed(c.batch.ids, c.batch.params))
                      => res.err = "MaxAgentIdPerServiceReached"

\* the elements of a list
ElementsOf(lst) == {lst[i] : i \in 1..Len(lst)}

\* C30: for a service in FinishedRegistration, a successful deploy creates a
\* multisig whose instance list holds exactly the instances registered in the
\* service and whose threshold is the service's threshold t with
\* 0 < t <= number of recorded instances; a deploy whose instance list differs
\* from the registered instances is rejected.
C30_MultisigOverRegistered ==
    \A a \in Dom1.accts : \A c \in DeployCalls(Dom1, service[a].service_id) :
        LET res == deploy_call(World, a, c)
            created == res.w.msig \ multisig_accounts
            registered == ElementsOf(agent_instances_index[a])
        IN  service[a].state = "FinishedRegistration" =>
                /\ res.err = "Ok" =>
                       \A m \in created :
                           /\ ElementsOf(m.agent_instances) = registered
                           /\ m.threshold = service[a].threshold
                           /\ 0 < m.threshold
                           /\ m.threshold <= Len(m.agent_instances)
                /\ ElementsOf(c.agent_instances) # registered => res.err # "Ok"

\* the positions of a registration call whose parameter account is not the one
\* derived from (the service, the role id asked for)
Substituted(a, c) ==
    {i \in 1..Min(Len(c.agent_ids), Len(c.param_accounts)) :
         c.param_accounts[i] # [acct |-> a, agent_id |-> c.agent_ids[i]]}

\* C31: register_agents rejects a call in which the parameter account supplied
\* for a requested role id r is not the account derived from (the service, r),
\* so the capacity enforced and the bond charged for every registered pair are
\* those the service stores for the requested role.
C31_ParamAccountDerived ==
    \A a \in DomRoles.accts : \A c \in RegisterCalls(DomRoles, a) :
        LET res == register_call(World, a, c) IN
        /\ Substituted(a, c) # {} => res.err # "Ok"
        /\ res.err = "Ok" =>
               \A i \in 1..Len(c.agent_ids) :
                   /\ res.w.slot[a][c.agent_ids[i]] <= agent_param[a][c.agent_ids[i]].slots
                   /\ agent_param[a][c.agent_ids[i]].init

\* C32: the registry lock is clear whenever no instruction is executing: after
\* a guarded instruction has returned, with Ok or with any error raised after
\* it took the lock, locked is false, and a guarded instruction that follows is
\* not rejected with the reentrancy error.
C32_LockClear ==
    /\ ~registry.locked
    /\ \A res \in GuardedOutcomes(Dom1, World) :
           /\ ~Persist(World, res).reg.locked
           /\ res.err # "ReentrancyGuard"
           /\ \A nxt \in GuardedOutcomes(Dom1, Persist(World, res)) :
                  nxt.err # "ReentrancyGuard"

\* a terminate has returned Ok, and a guarded call from here fails after it
\* took the lock
C32_Witness ==
    /\ last.op = "terminate"
    /\ ~registry.locked
    /\ \E res \in GuardedOutcomes(Dom1, World) :
           res.err \notin {"Ok", "ReentrancyGuard"} /\ res.w.reg.locked

RECURSIVE SumOfDeposits(_)
\* the security deposits of the services of accts that were activated and not
\* terminated since
SumOfDeposits(accts) ==
    IF accts = {} THEN 0
    ELSE LET a == CHOOSE x \in accts : TRUE
         IN  (IF ledger[a].deposits > 0 THEN service[a].security_deposit ELSE 0)
                 + SumOfDeposits(accts \ {a})

RECURSIVE SumOfAllBonds(_)
\* the operator bond records of the services of accts
SumOfAllBonds(accts) ==
    IF accts = {} THEN 0
    ELSE LET a == CHOOSE x \in accts : TRUE
         IN  SumOfBonds(operator_bond[a], Operators) + SumOfAllBonds(accts \ {a})

\* C33: in every reachable state the wallet holds at least slashed_funds plus
\* every operator bond record plus the security deposit of every service that
\* was activated and not yet terminated, so drain, terminate and unbond never
\* fail for insufficient funds.
C33_Solvent ==
    /\ lamports[Wallet] >= registry.slashed_funds + SumOfAllBonds(Accts)
                               + SumOfDeposits(Accts)
    /\ \A res \in DrainOutcomes(World) \cup TerminateOutcomes(DomFunds, World)
                      \cup UnbondOutcomes(DomFunds, World) :
           res.err \notin {"InsufficientFunds", "InsufficientFundsForTransfer"}

\* C34: what a successful terminate refunds to the service owner is what the
\* latest activate_registration of the service moved into the wallet, whatever
\* happened between the two.
C34_RefundIsWhatWasPaid ==
    \A a \in DomFunds.accts : \A c \in TerminateCalls(DomFunds, service[a].service_id) :
        LET res == terminate_call(World, a, c)
            owner == service[a].service_owner
        IN  res.err = "Ok" => res.w.bal[owner] - lamports[owner] = ledger[a].paid

\* C35: in every reachable state a service in FinishedRegistration has
\* num_agent_instances equal to max_num_agent_instances.
C35_FinishedIsFull ==
    \A a \in Accts :
        service[a].state = "FinishedRegistration" =>
            service[a].num_agent_instances = service[a].max_num_agent_instances

\* the unbond call of operator o on service a that hands in the operator's own
\* instance index and its records in index order
OwnUnbond(a, o) ==
    unbond(World, Manager, a, service[a].service_id, o, <<a, o>>,
           operator_agent_instance_index[a][o][1])

\* C36: for a service in TerminatedBonded and an operator that registered
\* k >= 1 instances in it, unbond supplied with the operator's k records in
\* index order succeeds, closes the k records and the bond record, and leaves
\* the service in PreRegistration once no registered instance remains.
C36_UnbondSucceeds ==
    \A a \in DomOps.accts : \A o \in DomOps.operators :
        LET entries == operator_agent_instance_index[a][o] IN
        (service[a].state = "TerminatedBonded" /\ Len(entries) >= 1) =>
            LET res == OwnUnbond(a, o) IN
            /\ res.err = "Ok"
            /\ \A i \in 1..Len(entries) : entries[i] \notin res.w.oai
            /\ res.w.oidx[a][o] = <<>>
            /\ res.w.bond[a][o] = EmptyBond
            /\ res.w.svc[a].num_agent_instances = 0
                   => res.w.svc[a].state = "PreRegistration"

\* the operators that registered instance x in service a
RegistrantsOf(a, x) ==
    {o \in Operators : <<x, o>> \in ElementsOf(operator_agent_instance_index[a][o])}

\* C37: a successful slash on a service names only instances registered in
\* that service, and reduces only the bonds, in that service, of the operators
\* that registered the named instances there; a slash naming an instance that
\* was never registered in the service is rejected.
C37_SlashOwnService ==
    \A a \in DomSlash.accts : \A c \in SlashCalls(DomSlash, service[a].service_id) :
        LET res == slash_call(World, a, c)
            named == ElementsOf(c.agent_instances)
        IN  res.err = "Ok" =>
                /\ \A x \in named : \E r \in Roles : <<a, r, x>> \in service_agent_instance
                /\ \A o \in Operators :
                       res.w.bond[a][o] # operator_bond[a][o]
                           => \E x \in named : o \in RegistrantsOf(a, x)
                /\ \A b \in Accts \ {a} : res.w.bond[b] = operator_bond[b]

\* the registration calls for one instance in role r that hand in the role's
\* own parameter account
SingleCalls(D, a, r) ==
    {c \in RegisterCalls(D, a) :
         /\ c.agent_ids = <<r>>
         /\ c.param_accounts = <<[acct |-> a, agent_id |-> r]>>}

\* C38: for a role of slot capacity S (32 bits), register_agents accepts a
\* registration into the role only while the role's slot counter is below S
\* and rejects it with the slots-filled error only once the counter has
\* reached S, for capacities of 256 and above as for smaller ones; and the
\* 8-bit counter never wraps.
C38_SlotComparison ==
    \A a \in DomWide.accts : \A r \in Roles : \A c \in SingleCalls(DomWide, a, r) :
        LET res == register_call(World, a, c)
            S == agent_param[a][r].slots
        IN  /\ res.err = "Ok" => slot_counter[a][r] < S
            /\ res.err = "AgentInstancesSlotsFilled" => slot_counter[a][r] >= S
            /\ res.err = "Ok" => res.w.slot[a][r] = slot_counter[a][r] + 1
            /\ slot_counter[a][r] < U8

\* C39: in every reachable state max_num_agent_instances of a service is the
\* saturating sum of the slot capacities of the roles in its role table, and so
\* 0 whenever the role table is empty, also after terminate has cleared it.
C39_MaxIsSumOfSlots ==
    \A a \in Accts :
        service[a].max_num_agent_instances = SumSlots(agent_ids_index[a])

\* C40: a service enters FinishedRegistration only with at least one
\* registered instance: a register_agents call with empty arrays on an
\* ActiveRegistration service with max_num_agent_instances 0 does not move it
\* to FinishedRegistration.
C40_FinishedHasInstances ==
    \A a \in Dom1.accts : \A c \in RegisterCalls(Dom1, a) :
        LET res == register_call(World, a, c) IN
        (res.err = "Ok" /\ res.w.svc[a].state = "FinishedRegistration")
            => res.w.svc[a].num_agent_instances >= 1
====
